---- MODULE Spec2Model ----
(***************************************************************************)
(* Timely Worlds: the retail and manufacturing scenario managers (beam     *)
(* expander and overlay registry), the differential dataflows of the two   *)
(* demos (per-key totals, base top-K, scenario top-K, alerts) and their    *)
(* epoch drivers.                                                          *)
(*                                                                         *)
(* Probabilities (f64 in the source) are exact rationals <<num, den>> with *)
(* den > 0; the configurations below use values whose products and         *)
(* comparisons are decided the same way in f64.  A collection of the       *)
(* dataflow is a function from records to non-zero multiplicities.         *)
(***************************************************************************)
EXTENDS Integers, Sequences, FiniteSets, TLC

VARIABLES cfg, customers, machines, next_id, active, overlays, outcome, calls, hist,
          metrics,
          epoch, i, pushed, job_counter, active_jobs, time, frontier, done,
          input, pred_input, scen_weight_input,
          totals, topk, scenario_topk, alerts,
          totals_diff, topk_diff, scenario_topk_diff, alerts_diff, totals_acc,
          alerts_emitted, alerts_closed

\* customers and machines are the populations of the generators
\* (opts.customers, opts.machines), 0 for the demo that is not running.
\* hist is what an observer of the outcomes has accumulated; the program does
\* not read it.
vars == <<cfg, customers, machines, next_id, active, overlays, outcome, calls, hist,
          metrics,
          epoch, i, pushed, job_counter, active_jobs, time, frontier, done,
          input, pred_input, scen_weight_input,
          totals, topk, scenario_topk, alerts,
          totals_diff, topk_diff, scenario_topk_diff, alerts_diff, totals_acc,
          alerts_emitted, alerts_closed>>

----------------------------------------------------------------------------
(* Bounds of the model. *)

\* Iterations of the batch loops (base events pushed) that a run is followed
\* for: the runs of the model are the beginnings of the program's runs.
MaxEvents == 6

\* The largest population of the generators: --customers, or --machines, is
\* any of 1..NumKeys, and the grouping keys are 0..NumKeys-1 at most.
NumKeys == 3

\* Updates of the base input when the dataflow is driven on its own.
MaxUpdates == 3

----------------------------------------------------------------------------
(* Probabilities. *)

Prob(n, d) == <<n, d>>

ProbLt(a, b) == a[1] * b[2] < b[1] * a[2]

ProbGe(a, b) == ~ProbLt(a, b)

ProbEq(a, b) == a[1] * b[2] = b[1] * a[2]

ProbMulDropsFactor(a, b) == a

ProbMul(a, b) == <<a[1] * b[1], a[2] * b[2]>>

\* f64::round of the non-negative or negative rational n/d (half away from zero).
RoundDiv(n, d) ==
    IF n >= 0 THEN (2 * n + d) \div (2 * d)
    ELSE -((2 * (-n) + d) \div (2 * d))

----------------------------------------------------------------------------
(* Orders and the predictor. *)

RECURSIVE LinesTotal(_)
LinesTotal(lines) ==
    IF lines = <<>> THEN 0
    ELSE Head(lines).price_cents * Head(lines).qty + LinesTotal(Tail(lines))

\* OrderPlaced::total_cents (the saturation of saturating_mul is out of reach
\* of the amounts used here).
total_cents(order) == LinesTotal(order.lines)

Max(a, b) == IF a >= b THEN a ELSE b

\* SpendGrowthPredictor::default(): uplift_ratio 0.3, min_delta_cents 3000.
UpliftRatio == Prob(3, 10)

PredictorMinDeltaCents == 3000

\* SpendGrowthPredictor::predict_delta
SpendGrowthPredict(order) ==
    LET base   == Max(total_cents(order), 1)
        uplift == RoundDiv(base * UpliftRatio[1], UpliftRatio[2])
    IN  Max(uplift, PredictorMinDeltaCents)

\* RetailScenarioManager::predict_delta: scale unless the multiplier is 1,
\* then clamp from below.
predict_delta_unclamped(c, order) ==
    LET raw == SpendGrowthPredict(order)
    IN  IF c.delta_multiplier[1] # c.delta_multiplier[2]
        THEN RoundDiv(raw * c.delta_multiplier[1], c.delta_multiplier[2])
        ELSE raw

predict_delta(c, order) ==
    LET raw    == SpendGrowthPredict(order)
        scaled == IF c.delta_multiplier[1] # c.delta_multiplier[2]
                  THEN RoundDiv(raw * c.delta_multiplier[1], c.delta_multiplier[2])
                  ELSE raw
    IN  IF scaled < c.min_delta_cents THEN c.min_delta_cents ELSE scaled

\* QueueGrowthPredictor::default(): base_units 1, duration_multiplier 0.001,
\* min_delta_units 2.
BaseUnits == 1

DurationMultiplier == Prob(1, 1000)

PredictorMinDeltaUnits == 2

\* QueueGrowthPredictor::predict_backlog
QueueGrowthPredict(op) ==
    LET duration_component ==
            RoundDiv(op.expected_duration_ms * DurationMultiplier[1], DurationMultiplier[2])
        estimate == BaseUnits + duration_component
    IN  Max(estimate, PredictorMinDeltaUnits)

\* ManufacturingScenarioManager::predict_delta
mfg_predict_delta(c, op) ==
    LET raw    == QueueGrowthPredict(op)
        scaled == IF c.delta_multiplier[1] # c.delta_multiplier[2]
                  THEN RoundDiv(raw * c.delta_multiplier[1], c.delta_multiplier[2])
                  ELSE raw
    IN  IF scaled < c.min_delta_units THEN c.min_delta_units ELSE scaled

----------------------------------------------------------------------------
(* The scenario managers.  RetailScenarioManager::expand_order and           *)
(* ManufacturingScenarioManager::expand_operation are the same code but for  *)
(* the event's grouping key, the predictor and the overlay's field names.    *)

None == <<>>

Some(x) == <<x>>

RootMetaDepthOne == [id |-> 0, parent |-> None, depth |-> 1, weight |-> Prob(1, 1)]

RootMeta == [id |-> 0, parent |-> None, depth |-> 0, weight |-> Prob(1, 1)]

EmptyOutcome ==
    [created |-> <<>>, retired |-> <<>>,
     overlays_added |-> <<>>, overlays_removed |-> <<>>]

\* ScenarioId is u64.  An id of 2^63 or more is written as the i64 of the
\* same 64 bits, v - 2^64: u64::MAX is -1, and the ids below 2^63 are
\* themselves.  Adding 1 modulo 2^64 is then adding 1, and the wrap from
\* u64::MAX to 0 is the step from -1 to 0.  The code compares ids for
\* equality only (parent.id == 0, the seen set, the keys of the overlay map).
\* The one step that this leaves out, from 2^63 - 1 to 2^63, is as far from
\* the ids of the runs followed here as an id can be.
wrapping_add_stuck(n) == n

wrapping_add(n) == n + 1

\* The cull test of the drain loop: true when the scenario is retired.
CullTestAboveDepth(c, meta) ==
    ProbLt(meta.weight, c.min_prob) \/ meta.depth > c.max_depth

CullTest(c, meta) ==
    ProbLt(meta.weight, c.min_prob) \/ meta.depth >= c.max_depth

SurvivorsKeepAll(c, act) == act

Survivors(c, act) == SelectSeq(act, LAMBDA m : ~CullTest(c, m))

CullRetired(c, act) == SelectSeq(act, LAMBDA m : CullTest(c, m))

\* parents_iter: the synthetic root, then the survivors.
ParentsRootTwice(survivors) == <<RootMeta, RootMeta>> \o survivors

Parents(survivors) == <<RootMeta>> \o survivors

\* The two gates of the child-generation loop (the `continue`s): a child is
\* made when its parent is below max_depth and its weight is not below min_prob.
ChildAdmittedNoFloor(c, parent, child_weight) ==
    ~(parent.depth >= c.max_depth)

ChildAdmittedNoDepthGate(c, parent, child_weight) ==
    ~ProbLt(child_weight, c.min_prob)

ChildAdmitted(c, parent, child_weight) ==
    ~(parent.depth >= c.max_depth) /\ ~ProbLt(child_weight, c.min_prob)

\* The child-generation loop over the parents from position j on.  st carries
\* next_id, the overlay map and the lists built so far.
\* RetailScenarioDelta / ManufacturingScenarioDelta
MakeOverlaySwapped(dom, child_id, key, delta) ==
    IF dom = "retail"
    THEN [scenario_id |-> key, customer_id |-> child_id, delta_cents |-> delta]
    ELSE [scenario_id |-> key, machine_id |-> child_id, delta_wip |-> delta]

MakeOverlay(dom, child_id, key, delta) ==
    IF dom = "retail"
    THEN [scenario_id |-> child_id, customer_id |-> key, delta_cents |-> delta]
    ELSE [scenario_id |-> child_id, machine_id |-> key, delta_wip |-> delta]

RECURSIVE Branch(_, _, _, _, _, _, _)
Branch(c, parents, j, dom, key, delta, st) ==
    IF j > Len(parents) THEN st
    ELSE
      LET parent == parents[j]
          parent_weight == IF parent.id = 0 THEN Prob(1, 1) ELSE parent.weight
          child_weight  == ProbMul(parent_weight, c.branch_prob)
      IN  IF ~ChildAdmitted(c, parent, child_weight)
          THEN Branch(c, parents, j + 1, dom, key, delta, st)
          ELSE
            LET child_id == st.next_id
                meta == [id     |-> child_id,
                         parent |-> IF parent.id = 0 THEN None ELSE Some(parent.id),
                         depth  |-> parent.depth + 1,
                         weight |-> child_weight]
                ov   == MakeOverlay(dom, child_id, key, delta)
            IN  Branch(c, parents, j + 1, dom, key, delta,
                       [next_id        |-> wrapping_add(st.next_id),
                        overlays       |-> (child_id :> ov) @@ st.overlays,
                        created        |-> Append(st.created, meta),
                        overlays_added |-> Append(st.overlays_added, ov)])

\* One step of a stable sort by weight descending: meta goes after every
\* element whose weight is not smaller than its own.
InsertByWeightUnstable(sorted, meta) ==
    LET before == SelectSeq(sorted, LAMBDA e : ProbLt(meta.weight, e.weight))
        after  == SelectSeq(sorted, LAMBDA e : ~ProbLt(meta.weight, e.weight))
    IN  before \o <<meta>> \o after

InsertByWeight(sorted, meta) ==
    LET before == SelectSeq(sorted, LAMBDA e : ~ProbLt(e.weight, meta.weight))
        after  == SelectSeq(sorted, LAMBDA e : ProbLt(e.weight, meta.weight))
    IN  before \o <<meta>> \o after

\* sorted.sort_by(|a, b| b.weight.partial_cmp(&a.weight)): stable, by weight
\* descending only.
RECURSIVE SortByWeight(_)
SortByWeight(s) ==
    IF s = <<>> THEN <<>>
    ELSE InsertByWeight(SortByWeight(SubSeq(s, 1, Len(s) - 1)), s[Len(s)])

\* Whether the beam still has room for one more scenario.
HasRoomOffByOne(retained, beam_width) == Len(retained) <= beam_width

HasRoomForOneAtLeast(retained, beam_width) == Len(retained) < Max(beam_width, 1)

HasRoom(retained, beam_width) == Len(retained) < beam_width

\* The dedup-and-beam loop over sorted from position j on.
RECURSIVE Beam(_, _, _, _)
BeamDropsSilently(c, sorted, j, st) ==
    IF j > Len(sorted) THEN st
    ELSE
      LET meta == sorted[j]
      IN  IF meta.id \in st.seen
          THEN Beam(c, sorted, j + 1, st)
          ELSE IF HasRoom(st.retained, c.beam_width)
          THEN Beam(c, sorted, j + 1,
                    [seen     |-> st.seen \cup {meta.id},
                     retained |-> Append(st.retained, meta),
                     retired  |-> st.retired])
          ELSE Beam(c, sorted, j + 1,
                    [seen     |-> st.seen \cup {meta.id},
                     retained |-> st.retained,
                     retired  |-> st.retired])

Beam(c, sorted, j, st) ==
    IF j > Len(sorted) THEN st
    ELSE
      LET meta == sorted[j]
      IN  IF meta.id \in st.seen
          THEN Beam(c, sorted, j + 1, st)
          ELSE IF HasRoom(st.retained, c.beam_width)
          THEN Beam(c, sorted, j + 1,
                    [seen     |-> st.seen \cup {meta.id},
                     retained |-> Append(st.retained, meta),
                     retired  |-> st.retired])
          ELSE Beam(c, sorted, j + 1,
                    [seen     |-> st.seen \cup {meta.id},
                     retained |-> st.retained,
                     retired  |-> Append(st.retired, meta)])

\* HashMap::remove of a present key.
DropKeyNoop(f, k) == f

DropKey(f, k) == [x \in DOMAIN f \ {k} |-> f[x]]

\* The overlay clean-up loop over retired from position j on.
RECURSIVE RemoveOverlays(_, _, _)
RemoveOverlays(retired, j, st) ==
    IF j > Len(retired) THEN st
    ELSE
      LET id == retired[j].id
      IN  IF id \in DOMAIN st.overlays
          THEN RemoveOverlays(retired, j + 1,
                              [overlays |-> DropKey(st.overlays, id),
                               removed  |-> Append(st.removed, st.overlays[id])])
          ELSE RemoveOverlays(retired, j + 1, st)

\* The body of expand_order / expand_operation on the manager state (nid, act,
\* ovs), for the event's grouping key and
\* predicted delta: the successor state and the outcome.
Expand(c, nid, act, ovs, dom, key, delta) ==
    LET survivors == Survivors(c, act)
        retired0  == CullRetired(c, act)
        br == Branch(c, Parents(survivors), 1, dom, key, delta,
                     [next_id |-> nid, overlays |-> ovs,
                      created |-> <<>>, overlays_added |-> <<>>])
        sorted == SortByWeight(survivors \o br.created)
        bm == Beam(c, sorted, 1,
                   [seen |-> {}, retained |-> <<>>, retired |-> retired0])
        rm == RemoveOverlays(bm.retired, 1,
                             [overlays |-> br.overlays, removed |-> <<>>])
    IN  [next_id  |-> br.next_id,
         active   |-> bm.retained,
         overlays |-> rm.overlays,
         outcome  |-> [created          |-> br.created,
                       retired          |-> bm.retired,
                       overlays_added   |-> br.overlays_added,
                       overlays_removed |-> rm.removed]]

\* RetailScenarioManager::expand_order
expand_order(c, nid, act, ovs, order) ==
    Expand(c, nid, act, ovs,
           "retail", order.customer_id, predict_delta(c, order))

\* ManufacturingScenarioManager::expand_operation
expand_operation(c, nid, act, ovs, op) ==
    Expand(c, nid, act, ovs,
           "mfg", op.machine_id, mfg_predict_delta(c, op))

----------------------------------------------------------------------------
(* Collections of the differential dataflow: record -> multiplicity # 0. *)

EmptyColl == [r \in {} |-> 0]

Count(c, r) == IF r \in DOMAIN c THEN c[r] ELSE 0

Single(r, d) == [x \in {r} |-> d]

\* concat: multiplicities add; records at multiplicity 0 are dropped.
Plus(a, b) ==
    LET U == DOMAIN a \cup DOMAIN b
    IN  [r \in {x \in U : Count(a, x) + Count(b, x) # 0} |-> Count(a, r) + Count(b, r)]

Negate(a) == [r \in DOMAIN a |-> -a[r]]

\* What an epoch emits for an output that went from b to a: the difference.
Minus(a, b) == Plus(a, Negate(b))

RECURSIVE SumCounts(_, _)
SumCounts(c, S) ==
    IF S = {} THEN 0
    ELSE LET r == CHOOSE x \in S : TRUE IN c[r] + SumCounts(c, S \ {r})

\* map: the multiplicities of the records with the same image add.
MapColl(c, F(_)) ==
    LET U == {F(r) : r \in DOMAIN c}
        cnt(y) == SumCounts(c, {r \in DOMAIN c : F(r) = y})
    IN  [y \in {u \in U : cnt(u) # 0} |-> cnt(y)]

FilterColl(c, P(_)) == [r \in {x \in DOMAIN c : P(x)} |-> c[r]]

\* join of <<k, va>> with <<k, vb>> records: <<k, <<va, vb>>>>, multiplicities
\* multiply.
Join(a, b) ==
    LET U == {<<ra, rb>> \in (DOMAIN a) \X (DOMAIN b) : ra[1] = rb[1]}
    IN  [r \in {<<p[1][1], <<p[1][2], p[2][2]>>>> : p \in U} |-> a[<<r[1], r[2][1]>>] * b[<<r[1], r[2][2]>>]]

\* The orders in which reduce hands a key's values to its closure: ascending
\* by the value's Ord (integers; pairs lexicographically; probabilities).
IntLess(a, b) == a < b

PairLess(a, b) == a[1] < b[1] \/ (a[1] = b[1] /\ a[2] < b[2])

\* The sequence of the elements of S in ascending order of the total order Less.
SortSet(S, Less(_, _)) ==
    [j \in 1..Cardinality(S) |->
        CHOOSE x \in S : Cardinality({y \in S : Less(y, x)}) = j - 1]

KeysOf(c) == {r[1] : r \in DOMAIN c}

\* A key's input slice [(value, count)] with the values in the given order.
InputsOf(c, k, sorted_vals) ==
    [j \in 1..Len(sorted_vals) |-> <<sorted_vals[j], c[<<k, sorted_vals[j]>>]>>]

ValsOf(c, k) == {r[2] : r \in {x \in DOMAIN c : x[1] = k}}

RECURSIVE SumPushed(_, _, _)
SumPushed(out, v, j) ==
    IF j > Len(out) THEN 0
    ELSE (IF out[j][1] = v THEN out[j][2] ELSE 0) + SumPushed(out, v, j + 1)

\* The output collection of a reduce whose closure pushed outs[k] for key k.
OutputColl(outs) ==
    LET U == UNION {{<<k, outs[k][j][1]>> : j \in 1..Len(outs[k])} : k \in DOMAIN outs}
        cnt(r) == SumPushed(outs[r[1]], r[2], 1)
    IN  [r \in {x \in U : cnt(x) # 0} |-> cnt(r)]

----------------------------------------------------------------------------
(* The closures of the dataflows (retail_demo and mfg_demo share them). *)

RECURSIVE WeightedSum(_)
WeightedSum(inputs) ==
    IF inputs = <<>> THEN 0
    ELSE Head(inputs)[1] * Head(inputs)[2] + WeightedSum(Tail(inputs))

RECURSIVE PlainSum(_)
PlainSum(inputs) ==
    IF inputs = <<>> THEN 0
    ELSE Head(inputs)[1] + PlainSum(Tail(inputs))

\* totals / pred_totals: sum += amt * cnt; output.push((sum, 1)).
SumLogicIgnoreCount(inputs) == <<<<PlainSum(inputs), 1>>>>

SumLogicPushCount(inputs) == <<<<WeightedSum(inputs), Len(inputs) + 1>>>>

SumLogic(inputs) == <<<<WeightedSum(inputs), 1>>>>

\* vals.sort_by(|a, b| b.0.0.cmp(&a.0.0)): stable, by the sum descending.
InsertBySumAscending(sorted, e) ==
    LET before == SelectSeq(sorted, LAMBDA x : x[1][1] <= e[1][1])
        after  == SelectSeq(sorted, LAMBDA x : ~(x[1][1] <= e[1][1]))
    IN  before \o <<e>> \o after

InsertBySum(sorted, e) ==
    LET before == SelectSeq(sorted, LAMBDA x : x[1][1] >= e[1][1])
        after  == SelectSeq(sorted, LAMBDA x : ~(x[1][1] >= e[1][1]))
    IN  before \o <<e>> \o after

RECURSIVE SortBySumDesc(_)
SortBySumDesc(s) ==
    IF s = <<>> THEN <<>>
    ELSE InsertBySum(SortBySumDesc(SubSeq(s, 1, Len(s) - 1)), s[Len(s)])

Min(a, b) == IF a <= b THEN a ELSE b

\* As TopKLogic, with each value pushed as often as the input holds it.
TopKLogicPushCount(inputs, top_k) ==
    LET vals == SortBySumDesc(inputs)
    IN  [j \in 1..Min(top_k, Len(vals)) |-> <<vals[j][1], vals[j][2]>>]

\* topk / scenario_topk: push the first top_k.min(len) values, each once.
TopKLogic(inputs, top_k) ==
    LET vals == SortBySumDesc(inputs)
    IN  [j \in 1..Min(top_k, Len(vals)) |-> <<vals[j][1], 1>>]

RECURSIVE FoldMax(_, _)
FoldMax(inputs, acc) ==
    IF inputs = <<>> THEN acc
    ELSE FoldMax(Tail(inputs), IF ProbLt(acc, Head(inputs)[1]) THEN Head(inputs)[1] ELSE acc)

\* scen_weights: fold(0.0, f64::max) over the probabilities; push once.
MaxLogic(inputs) == <<<<FoldMax(inputs, Prob(0, 1)), 1>>>>

----------------------------------------------------------------------------
(* The operators of the dataflows, as functions of the accumulated inputs at  *)
(* a completed epoch.  mfg_demo's graph is retail_demo's with machines for   *)
(* customers, but for the first map and the alert filter.                    *)

Unit == <<>>

\* spends: (customer_id, total_cents) per order.
Spends(orders) == MapColl(orders, LAMBDA o : <<o.customer_id, total_cents(o)>>)

\* machine_deltas: (machine_id, +1) per operation start, (machine_id, -1) per
\* completion, nothing for a machine state change.
MachineDeltas(events) ==
    MapColl(FilterColl(events, LAMBDA ev : ev.kind # "MachineStateChange"),
            LAMBDA ev : <<ev.machine_id, IF ev.kind = "OperationStart" THEN 1 ELSE -1>>)

\* The keyed contributions of the base events of a domain.
BaseDeltas(dom, events) ==
    IF dom = "retail" THEN Spends(events) ELSE MachineDeltas(events)

\* totals / wip: the per-key sums of the contributions sp, records <<key, sum>>.
Totals(sp) ==
    OutputColl([k \in KeysOf(sp) |->
                  SumLogic(InputsOf(sp, k, SortSet(ValsOf(sp, k), IntLess)))])

\* topk: records <<Unit, <<sum, cust>>>>.
TopK(tot, top_k) ==
    LET by_unit == MapColl(tot, LAMBDA r : <<Unit, <<r[2], r[1]>>>>)
    IN  OutputColl([k \in KeysOf(by_unit) |->
                      TopKLogic(InputsOf(by_unit, k, SortSet(ValsOf(by_unit, k), PairLess)),
                                top_k)])

\* pred_totals: records <<sid, cust, delta>>, one summed delta per (sid, cust).
PredTotals(pred) ==
    LET keyed == MapColl(pred, LAMBDA r : <<<<r[1], r[2]>>, r[3]>>)
        red   == OutputColl([k \in KeysOf(keyed) |->
                      SumLogic(InputsOf(keyed, k, SortSet(ValsOf(keyed, k), IntLess)))])
    IN  MapColl(red, LAMBDA r : <<r[1][1], r[1][2], r[2]>>)

\* scen_weights: records <<sid, maxp>>.
ScenWeights(weights) ==
    OutputColl([k \in KeysOf(weights) |->
                  MaxLogic(InputsOf(weights, k, SortSet(ValsOf(weights, k), ProbLt)))])

\* base_topk_broadcast: records <<sid, <<sum, cust>>>>.
BaseTopKBroadcast(sw, tk) ==
    LET scenarios_by_unit == MapColl(sw, LAMBDA r : <<Unit, r[1]>>)
        base_topk_by_unit == MapColl(tk, LAMBDA r : <<Unit, <<r[2][2], r[2][1]>>>>)
    IN  MapColl(Join(scenarios_by_unit, base_topk_by_unit),
                LAMBDA r : <<r[2][1], <<r[2][2][2], r[2][2][1]>>>>)

\* scenario_changed: records <<sid, <<base_sum + delta, cust>>>>.
ScenarioChanged(pt, tot) ==
    LET pred_totals_by_cust == MapColl(pt, LAMBDA r : <<r[2], <<r[1], r[3]>>>>)
    IN  MapColl(Join(pred_totals_by_cust, tot),
                LAMBDA r : <<r[2][1][1], <<r[2][2] + r[2][1][2], r[1]>>>>)

\* candidates = base_topk_broadcast.concat(&scenario_changed)
CandidatesBroadcastOnly(sw, tk, pt, tot) == BaseTopKBroadcast(sw, tk)

Candidates(sw, tk, pt, tot) ==
    Plus(BaseTopKBroadcast(sw, tk), ScenarioChanged(pt, tot))

\* scenario_topk: records <<sid, <<sum, cust>>>>.
ScenarioTopK(cand, top_k) ==
    OutputColl([k \in KeysOf(cand) |->
                  TopKLogic(InputsOf(cand, k, SortSet(ValsOf(cand, k), PairLess)), top_k)])

\* alerts: records <<sid, cust, sum, prob>>.
AlertsNoThreshold(stk, sw, target_customer, prob_threshold) ==
    LET hits   == FilterColl(MapColl(stk, LAMBDA r : <<r[1], <<r[2][2], r[2][1]>>>>),
                             LAMBDA r : r[2][1] = target_customer)
    IN  MapColl(Join(hits, sw), LAMBDA r : <<r[1], r[2][1][1], r[2][1][2], r[2][2]>>)

Alerts(stk, sw, target_customer, prob_threshold) ==
    LET hits   == FilterColl(MapColl(stk, LAMBDA r : <<r[1], <<r[2][2], r[2][1]>>>>),
                             LAMBDA r : r[2][1] = target_customer)
        joined == FilterColl(Join(hits, sw),
                             LAMBDA r : ProbGe(r[2][2], prob_threshold))
    IN  MapColl(joined, LAMBDA r : <<r[1], r[2][1][1], r[2][1][2], r[2][2]>>)

\* alerts of mfg_demo: records <<sid, machine, sum, prob>>.
MfgAlerts(stk, sw, backlog_threshold, prob_threshold) ==
    LET joined == FilterColl(Join(MapColl(stk, LAMBDA r : <<r[1], <<r[2][2], r[2][1]>>>>), sw),
                             LAMBDA r : /\ r[2][1][2] >= backlog_threshold
                                        /\ ProbGe(r[2][2], prob_threshold))
    IN  MapColl(joined, LAMBDA r : <<r[1], r[2][1][1], r[2][1][2], r[2][2]>>)

----------------------------------------------------------------------------
(* Configurations (RetailOpts, ManufacturingOpts) and the events of the      *)
(* workload.                                                                 *)

\* beam_width=2, branch_prob=0.9, min_prob=0.01, max_depth=5; two orders per batch.
CfgBeamEviction ==
    [domain |-> "retail",
     max_depth |-> 5, beam_width |-> 2, min_prob |-> Prob(1, 100),
     branch_prob |-> Prob(9, 10), delta_multiplier |-> Prob(3, 10),
     min_delta_cents |-> 3000, top_k |-> 2, target_customer |-> 2,
     prob_threshold |-> Prob(1, 5), batch_size |-> 2]

\* beam_width=4, min_prob=0.1, branch_prob=0.5, max_depth=3; deltas at the
\* default floor (3000); target customer 1; the alert threshold 0.3 lies
\* between the weights 0.5 and 0.25.
CfgRootGrowth ==
    [domain |-> "retail",
     max_depth |-> 3, beam_width |-> 4, min_prob |-> Prob(1, 10),
     branch_prob |-> Prob(1, 2), delta_multiplier |-> Prob(1, 100),
     min_delta_cents |-> 3000, top_k |-> 1, target_customer |-> 1,
     prob_threshold |-> Prob(3, 10), batch_size |-> 1]

\* As CfgRootGrowth with min_prob=0.3 and top_k=2.
CfgPruning ==
    [domain |-> "retail",
     max_depth |-> 3, beam_width |-> 4, min_prob |-> Prob(3, 10),
     branch_prob |-> Prob(1, 2), delta_multiplier |-> Prob(1, 100),
     min_delta_cents |-> 0, top_k |-> 2, target_customer |-> 2,
     prob_threshold |-> Prob(1, 5), batch_size |-> 1]

\* branch_prob=1: every scenario weighs 1, whatever its depth; max_depth=2.
CfgTies ==
    [domain |-> "retail",
     max_depth |-> 2, beam_width |-> 3, min_prob |-> Prob(1, 2),
     branch_prob |-> Prob(1, 1), delta_multiplier |-> Prob(1, 1),
     min_delta_cents |-> 0, top_k |-> 1, target_customer |-> 2,
     prob_threshold |-> Prob(1, 5), batch_size |-> 1]

\* beam_width=1, max_depth=1, branch_prob=0.5: every call retires the active
\* scenario and keeps the root's new child (weight 0.5); top_k=1, target
\* customer 2, deltas at the default floor (3000).
CfgSingleScenario ==
    [domain |-> "retail",
     max_depth |-> 1, beam_width |-> 1, min_prob |-> Prob(1, 10),
     branch_prob |-> Prob(1, 2), delta_multiplier |-> Prob(1, 100),
     min_delta_cents |-> 3000, top_k |-> 1, target_customer |-> 2,
     prob_threshold |-> Prob(1, 5), batch_size |-> 1]

\* branch_prob=0 with min_prob=0; max_depth=1, beam_width=1.
CfgZeroBranch ==
    [domain |-> "retail",
     max_depth |-> 1, beam_width |-> 1, min_prob |-> Prob(0, 1),
     branch_prob |-> Prob(0, 1), delta_multiplier |-> Prob(1, 100),
     min_delta_cents |-> 0, top_k |-> 1, target_customer |-> 2,
     prob_threshold |-> Prob(1, 5), batch_size |-> 1]

\* beam_width=0; branch_prob=0.5, min_prob=0.1, max_depth=3.
CfgZeroBeam ==
    [domain |-> "retail",
     max_depth |-> 3, beam_width |-> 0, min_prob |-> Prob(1, 10),
     branch_prob |-> Prob(1, 2), delta_multiplier |-> Prob(1, 100),
     min_delta_cents |-> 0, top_k |-> 1, target_customer |-> 2,
     prob_threshold |-> Prob(1, 5), batch_size |-> 1]

\* max_depth=0; beam_width=2, branch_prob=0.5, min_prob=0.1.
CfgZeroDepth ==
    [domain |-> "retail",
     max_depth |-> 0, beam_width |-> 2, min_prob |-> Prob(1, 10),
     branch_prob |-> Prob(1, 2), delta_multiplier |-> Prob(1, 100),
     min_delta_cents |-> 0, top_k |-> 1, target_customer |-> 2,
     prob_threshold |-> Prob(1, 5), batch_size |-> 1]

\* max_depth=1 on a beam with room: beam_width=2, branch_prob=0.5, min_prob=0.1.
CfgShallow ==
    [domain |-> "retail",
     max_depth |-> 1, beam_width |-> 2, min_prob |-> Prob(1, 10),
     branch_prob |-> Prob(1, 2), delta_multiplier |-> Prob(1, 100),
     min_delta_cents |-> 0, top_k |-> 1, target_customer |-> 2,
     prob_threshold |-> Prob(1, 5), batch_size |-> 1]

\* Probabilities outside [0, 1], as the command line accepts them:
\* min_prob=1.5; max_depth=3, beam_width=2, branch_prob=0.5.
CfgInvalidProb ==
    [domain |-> "retail",
     max_depth |-> 3, beam_width |-> 2, min_prob |-> Prob(3, 2),
     branch_prob |-> Prob(1, 2), delta_multiplier |-> Prob(1, 100),
     min_delta_cents |-> 0, top_k |-> 1, target_customer |-> 2,
     prob_threshold |-> Prob(1, 5), batch_size |-> 1]

\* mfg_demo with its default probabilities, multiplier and floor on a narrow
\* beam; one operation per batch; the alert threshold 0.3 lies between the
\* weights 0.45 and 0.2025.
CfgMfg ==
    [domain |-> "mfg",
     max_depth |-> 2, beam_width |-> 3, min_prob |-> Prob(1, 10),
     branch_prob |-> Prob(9, 20), delta_multiplier |-> Prob(1, 2),
     min_delta_units |-> 2, top_k |-> 2, backlog_threshold |-> 3,
     prob_threshold |-> Prob(3, 10), ops_per_batch |-> 1]

\* delta_multiplier=0 with min_delta_cents=0: every overlay has delta 0, and a
\* scenario's changed total of the ordering customer equals the base total
\* that the broadcast gives it; top_k=1, target customer 0.
CfgZeroDelta ==
    [domain |-> "retail",
     max_depth |-> 2, beam_width |-> 2, min_prob |-> Prob(1, 10),
     branch_prob |-> Prob(1, 2), delta_multiplier |-> Prob(0, 1),
     min_delta_cents |-> 0, top_k |-> 1, target_customer |-> 0,
     prob_threshold |-> Prob(1, 5), batch_size |-> 1]

Configs ==
    {CfgBeamEviction, CfgRootGrowth, CfgPruning, CfgTies, CfgSingleScenario,
     CfgZeroBranch, CfgZeroBeam, CfgZeroDepth, CfgShallow, CfgInvalidProb, CfgZeroDelta,
     CfgMfg}

\* The synthetic generator of retail_demo: the order of iteration i of a
\* batch, with the fields that tell orders apart and those the manager and
\* the dataflow read.
GenOrder(batch, j, custs) ==
    LET cust   == (batch * 13 + j * 7) % custs
        base   == 1000 + (j % 10) * 250
        bonus  == IF cust % 7 = 0 THEN 2000 ELSE 0
        amount == base + bonus
    IN  [order_id    |-> batch * 10000 + j,
         customer_id |-> cust,
         lines       |-> <<[qty |-> 1, price_cents |-> amount]>>]

\* The synthetic generator of mfg_demo: the operation of iteration i of a
\* batch, for the job just counted.
GenOperation(batch, j, machs, job) ==
    LET machine     == (batch * 5 + j * 11) % machs
        duration_ms == 3000 + (machine * 250) + (j % 5) * 500
    IN  [job_id               |-> job,
         machine_id           |-> machine,
         expected_duration_ms |-> duration_ms]

\* The payloads of the manufacturing envelopes: the fields that tell them
\* apart and those machine_deltas reads.
StartEvent(op) ==
    [kind |-> "OperationStart", job_id |-> op.job_id, machine_id |-> op.machine_id]

CompleteEvent(job) ==
    [kind |-> "OperationComplete", job_id |-> job.job_id, machine_id |-> job.machine_id]

----------------------------------------------------------------------------
(* The state machine: the epoch drivers of retail_demo and mfg_demo. *)

\* coll after pushing every record of the list with multiplicity d.
RECURSIVE PushAll(_, _, _, _)
PushAll(coll, recs, j, d) ==
    IF j > Len(recs) THEN coll
    ELSE PushAll(Plus(coll, Single(recs[j], d)), recs, j + 1, d)

\* MetricsRegistry: the counters, all zero at the start.
MetricsDefault ==
    [base_events |-> 0, predicted_events |-> 0, scenario_alerts |-> 0,
     scenario_created |-> 0, scenario_retired |-> 0, scenario_active_peak |-> 0]

inc_base_events(mt, delta) == [mt EXCEPT !.base_events = @ + delta]

inc_predicted_events(mt, delta) == [mt EXCEPT !.predicted_events = @ + delta]

inc_scenario_alerts(mt, delta) == [mt EXCEPT !.scenario_alerts = @ + delta]

inc_scenario_created(mt, delta) == [mt EXCEPT !.scenario_created = @ + delta]

inc_scenario_retired(mt, delta) == [mt EXCEPT !.scenario_retired = @ + delta]

\* fetch_max
record_active_peak(mt, n) ==
    [mt EXCEPT !.scenario_active_peak = IF n > @ THEN n ELSE @]

\* The metrics updates that follow an expand call in the batch loop.
RecordExpand(mt, out, active_len) ==
    LET m1 == inc_scenario_created(mt, Len(out.created))
        m2 == inc_scenario_retired(m1, Len(out.retired))
        overlay_changes == Len(out.overlays_added) + Len(out.overlays_removed)
        m3 == IF overlay_changes > 0 THEN inc_predicted_events(m2, overlay_changes) ELSE m2
    IN  record_active_peak(m3, active_len)

\* What an observer of the outcomes has seen so far: the ids in the order
\* they were given out, the ids retired, how often each id's overlay was
\* reported added and removed, and the time (epoch) at which each id's
\* insertions and retractions were pushed into the scenario inputs.
EmptyHistory ==
    [allocated |-> <<>>, retired |-> {}, added |-> EmptyColl, removed |-> EmptyColl,
     born |-> <<>>, died |-> <<>>]

\* f with every key of S set to v.
Stamp(f, S, v) == [x \in DOMAIN f \cup S |-> IF x \in S THEN v ELSE f[x]]

Observe(h, out, t) ==
    [born      |-> Stamp(h.born, {out.created[j].id : j \in DOMAIN out.created}, t),
     died      |-> Stamp(h.died, {out.retired[j].id : j \in DOMAIN out.retired}, t),
     allocated |-> h.allocated \o [j \in DOMAIN out.created |-> out.created[j].id],
     retired   |-> h.retired \cup {out.retired[j].id : j \in DOMAIN out.retired},
     added     |-> PushAll(h.added,
                           [j \in DOMAIN out.overlays_added |->
                               out.overlays_added[j].scenario_id], 1, 1),
     removed   |-> PushAll(h.removed,
                           [j \in DOMAIN out.overlays_removed |->
                               out.overlays_removed[j].scenario_id], 1, 1)]

\* The times of the three input sessions, all at t.
AllAt(t) == [input |-> t, pred_input |-> t, scen_weight_input |-> t]

\* The frontier the probe reaches once the worker has done all the work the
\* flushed inputs allow: the least of the inputs' times.
FrontierOf(tm) ==
    Min(tm.input, Min(tm.pred_input, tm.scen_weight_input))

\* probe.less_than(t)
ProbeLessThan(fr, t) == fr < t

\* The operators of the dataflow that the outputs go through.  A reduce
\* gives its output for an epoch once everything before it has finished the
\* epoch.  The join of alerts takes in the changes of its two inputs as they
\* come: those of scen_weights first, which reach it straight from the
\* reduce ("scen_weights" is the reduce together with the join taking in what
\* it gives), then those of scenario_topk ("alerts"), which has the weights
\* only after the broadcast join, the concat and its own reduce.  pred_totals
\* and the joins that feed candidates are part of "scenario_topk".  "probe"
\* is the one ProbeHandle, moved by the probe operators on topk and on alerts.
Operators == {"totals", "topk", "scen_weights", "scenario_topk", "alerts", "probe"}

\* What an operator's work of an epoch waits for, with the probe on topk
\* alone.
NeedsProbeOnTopK(op) ==
    CASE op = "totals"        -> {}
      [] op = "topk"          -> {"totals"}
      [] op = "scen_weights"  -> {}
      [] op = "scenario_topk" -> {"totals", "topk", "scen_weights"}
      [] op = "alerts"        -> {"scenario_topk", "scen_weights"}
      [] op = "probe"         -> {"topk"}

\* What an operator's work of an epoch waits for.  probe_with(&mut probe) is
\* called on topk and on alerts: the handle is behind as long as one of the
\* two streams is.
Needs(op) ==
    CASE op = "totals"        -> {}
      [] op = "topk"          -> {"totals"}
      [] op = "scen_weights"  -> {}
      [] op = "scenario_topk" -> {"totals", "topk", "scen_weights"}
      [] op = "alerts"        -> {"scenario_topk", "scen_weights"}
      [] op = "probe"         -> {"topk", "alerts"}

\* The condition of the wait loop: while probe.less_than(input.time()).
Waiting == ProbeLessThan(frontier, time.input)

\* The options of the run.
Options ==
    /\ cfg \in Configs
    /\ customers \in (IF cfg.domain = "retail" THEN 1..NumKeys ELSE {0})
    /\ machines \in (IF cfg.domain = "mfg" THEN 1..NumKeys ELSE {0})

\* RetailScenarioManager::new / ManufacturingScenarioManager::new
NewManager ==
    /\ next_id = 1
    /\ active = <<>>
    /\ overlays = EmptyColl

\* Nothing observed yet, and the driver and the dataflow as they are built: registry at zero, inputs at time 0, empty
\* collections.
NewDriver ==
    /\ outcome = EmptyOutcome
    /\ calls = 0
    /\ hist = EmptyHistory
    /\ metrics = MetricsDefault
    /\ epoch = 0
    /\ i = 0
    /\ pushed = 0
    /\ job_counter = 0
    /\ active_jobs = <<>>
    /\ time = AllAt(0)
    /\ frontier = 0
    /\ done = {}
    /\ input = EmptyColl
    /\ pred_input = EmptyColl
    /\ scen_weight_input = EmptyColl
    /\ totals = EmptyColl
    /\ topk = EmptyColl
    /\ scenario_topk = EmptyColl
    /\ alerts = EmptyColl
    /\ totals_diff = EmptyColl
    /\ topk_diff = EmptyColl
    /\ scenario_topk_diff = EmptyColl
    /\ alerts_diff = EmptyColl
    /\ totals_acc = EmptyColl
    /\ alerts_emitted = EmptyColl
    /\ alerts_closed = EmptyColl

\* The state after construction.
Start == Options /\ NewManager /\ NewDriver

Init == Start

WeightRecs(metas) == [j \in 1..Len(metas) |-> <<metas[j].id, metas[j].weight>>]

\* The grouping key and the delta of an overlay of either domain.
OverlayKey(ov) ==
    IF "customer_id" \in DOMAIN ov THEN ov.customer_id ELSE ov.machine_id

OverlayDelta(ov) ==
    IF "delta_cents" \in DOMAIN ov THEN ov.delta_cents ELSE ov.delta_wip

OverlayRecs(deltas) ==
    [j \in 1..Len(deltas) |->
        <<deltas[j].scenario_id, OverlayKey(deltas[j]), OverlayDelta(deltas[j])>>]

\* totals_acc is what a consumer of the totals stream holds after adding up
\* every diff it has seen.
outputs == <<totals, topk, scenario_topk, alerts,
             totals_diff, topk_diff, scenario_topk_diff, alerts_diff, totals_acc,
             alerts_emitted, alerts_closed>>

\* The four loops that push an outcome into the scenario inputs.
PushOutcomeNoRetractions(out) ==
    /\ scen_weight_input' = PushAll(scen_weight_input, WeightRecs(out.created), 1, 1)
    /\ pred_input' = PushAll(pred_input, OverlayRecs(out.overlays_added), 1, 1)

PushOutcomeKeepsWeights(out) ==
    /\ scen_weight_input' = PushAll(scen_weight_input, WeightRecs(out.created), 1, 1)
    /\ pred_input' =
         PushAll(PushAll(pred_input, OverlayRecs(out.overlays_added), 1, 1),
                 OverlayRecs(out.overlays_removed), 1, -1)

PushOutcome(out) ==
    /\ scen_weight_input' =
         PushAll(PushAll(scen_weight_input, WeightRecs(out.created), 1, 1),
                 WeightRecs(out.retired), 1, -1)
    /\ pred_input' =
         PushAll(PushAll(pred_input, OverlayRecs(out.overlays_added), 1, 1),
                 OverlayRecs(out.overlays_removed), 1, -1)

\* One iteration of retail_demo's batch loop: expand_order, input.insert, and
\* the pushes of the outcome.
ProcessOrder(order) ==
    /\ cfg.domain = "retail"
    /\ ~Waiting
    /\ pushed < MaxEvents
    /\ i < cfg.batch_size
    /\ LET r == expand_order(cfg, next_id, active, overlays, order)
       IN  /\ next_id' = r.next_id
           /\ active' = r.active
           /\ overlays' = r.overlays
           /\ outcome' = r.outcome
           /\ hist' = Observe(hist, r.outcome, time.input)
           /\ metrics' = inc_base_events(RecordExpand(metrics, r.outcome, Len(r.active)), 1)
           /\ PushOutcome(r.outcome)
    /\ input' = Plus(input, Single(order, 1))
    /\ calls' = calls + 1
    /\ i' = i + 1
    /\ pushed' = pushed + 1
    /\ UNCHANGED <<cfg, customers, machines, epoch, job_counter, active_jobs, time,
                   frontier, done, outputs>>

\* One iteration of mfg_demo's batch loop: expand_operation, the pushes of the
\* outcome, input.insert of the start, and the job's entry in active_jobs.
ProcessOperation(op) ==
    /\ cfg.domain = "mfg"
    /\ ~Waiting
    /\ pushed < MaxEvents
    /\ i < cfg.ops_per_batch
    /\ job_counter' = job_counter + 1
    /\ LET r == expand_operation(cfg, next_id, active, overlays, op)
       IN  /\ next_id' = r.next_id
           /\ active' = r.active
           /\ overlays' = r.overlays
           /\ outcome' = r.outcome
           /\ hist' = Observe(hist, r.outcome, time.input)
           /\ metrics' = inc_base_events(RecordExpand(metrics, r.outcome, Len(r.active)), 1)
           /\ PushOutcome(r.outcome)
    /\ input' = Plus(input, Single(StartEvent(op), 1))
    /\ active_jobs' = Append(active_jobs,
                             [job_id      |-> op.job_id,
                              machine_id  |-> op.machine_id,
                              ready_epoch |-> epoch + 1 + (op.machine_id % 3)])
    /\ calls' = calls + 1
    /\ i' = i + 1
    /\ pushed' = pushed + 1
    /\ UNCHANGED <<cfg, customers, machines, epoch, time, frontier, done, outputs>>

\* epoch += 1, advance_to(epoch) and flush() on the three inputs: the probe is
\* now behind input.time(), and every operator has the work of the closed
\* time to do.  The updates that alerts shows for it are counted from here.
AdvanceAndFlush ==
    /\ epoch' = epoch + 1
    /\ time' = AllAt(epoch + 1)
    /\ i' = 0
    /\ done' = {}
    /\ alerts_diff' = EmptyColl
    /\ alerts_emitted' = EmptyColl
    /\ UNCHANGED <<totals, topk, scenario_topk, alerts, totals_diff, topk_diff,
                   scenario_topk_diff, totals_acc, alerts_closed>>

\* The end of a batch of retail_demo.
AdvanceEpoch ==
    /\ cfg.domain = "retail"
    /\ ~Waiting
    /\ i = cfg.batch_size
    /\ AdvanceAndFlush
    /\ UNCHANGED <<cfg, customers, machines, next_id, active, overlays, outcome, calls, hist, metrics, pushed,
                   job_counter, active_jobs, frontier,
                   input, pred_input, scen_weight_input>>

\* The end of a batch of mfg_demo: the jobs that are ready complete (one
\* OperationComplete each), then the inputs advance.
MfgAdvanceEpoch ==
    /\ cfg.domain = "mfg"
    /\ ~Waiting
    /\ i = cfg.ops_per_batch
    /\ LET completed == SelectSeq(active_jobs, LAMBDA job : job.ready_epoch <= epoch)
           events    == [j \in 1..Len(completed) |-> CompleteEvent(completed[j])]
       IN  /\ active_jobs' = SelectSeq(active_jobs, LAMBDA job : ~(job.ready_epoch <= epoch))
           /\ input' = PushAll(input, events, 1, 1)
           /\ metrics' = inc_base_events(metrics, Len(completed))
    /\ AdvanceAndFlush
    /\ UNCHANGED <<cfg, customers, machines, next_id, active, overlays, outcome, calls, hist, pushed,
                   job_counter, frontier, pred_input, scen_weight_input>>

\* alerts, of either demo.
AlertsOf(c, stk, sw) ==
    IF c.domain = "retail"
    THEN Alerts(stk, sw, c.target_customer, c.prob_threshold)
    ELSE MfgAlerts(stk, sw, c.backlog_threshold, c.prob_threshold)

\* One update seen for every record of a batch of changes.
Seen(d) == [r \in DOMAIN d |-> 1]

\* One worker.step() of the wait loop that makes headway (one that makes none
\* changes nothing).  A step schedules the operators that have work: ops is
\* any set of operators whose work of the epoch is still to do and that wait
\* for nothing outside done and ops.  Control is back in the loop in between:
\* with totals updated and topk not, with the alerts of a retired scenario
\* retracted and scenario_topk unchanged, with scenario_topk updated and its
\* alerts not, with the alerts counted by the inspect while probe.less_than is
\* still true.  Each output ends up showing the accumulated inputs.  The
\* join emits what each batch of changes makes of the other input as it has
\* it, and the inspect counts one scenario alert per update it is shown.
\* done is the set of operators that have done the epoch's work;
\* alerts_diff adds up the epoch's updates of alerts, alerts_emitted counts
\* them per record, alerts_closed is alerts as the wait loop last left it.
WorkerStep(ops) ==
    /\ Waiting
    /\ ops # {}
    /\ ops \cap done = {}
    /\ \A op \in ops : Needs(op) \subseteq done \cup ops
    /\ done' = done \cup ops
    /\ LET tot == IF "totals" \in ops
                  THEN Totals(BaseDeltas(cfg.domain, input)) ELSE totals
           tk  == IF "topk" \in ops THEN TopK(tot, cfg.top_k) ELSE topk
           sw  == ScenWeights(scen_weight_input)
           stk == IF "scenario_topk" \in ops
                  THEN ScenarioTopK(Candidates(sw, tk, PredTotals(pred_input), tot),
                                    cfg.top_k)
                  ELSE scenario_topk
           by_weights == IF "scen_weights" \in ops
                         THEN AlertsOf(cfg, scenario_topk, sw) ELSE alerts
           by_topk    == IF "alerts" \in ops
                         THEN AlertsOf(cfg, stk, sw) ELSE by_weights
           first  == Minus(by_weights, alerts)
           second == Minus(by_topk, by_weights)
       IN  /\ totals' = tot
           /\ topk' = tk
           /\ scenario_topk' = stk
           /\ alerts' = by_topk
           /\ IF "totals" \in ops
              THEN /\ totals_diff' = Minus(tot, totals)
                   /\ totals_acc' = Plus(totals_acc, Minus(tot, totals))
              ELSE UNCHANGED <<totals_diff, totals_acc>>
           /\ topk_diff' = IF "topk" \in ops THEN Minus(tk, topk) ELSE topk_diff
           /\ scenario_topk_diff' = IF "scenario_topk" \in ops
                                    THEN Minus(stk, scenario_topk)
                                    ELSE scenario_topk_diff
           /\ alerts_diff' = Plus(Plus(alerts_diff, first), second)
           /\ alerts_emitted' = Plus(Plus(alerts_emitted, Seen(first)), Seen(second))
           /\ metrics' = inc_scenario_alerts(metrics, Cardinality(DOMAIN first)
                                                        + Cardinality(DOMAIN second))
           /\ alerts_closed' = IF "probe" \in ops THEN by_topk ELSE alerts_closed
    /\ frontier' = IF "probe" \in ops THEN FrontierOf(time) ELSE frontier
    /\ UNCHANGED <<cfg, customers, machines, next_id, active, overlays, outcome, calls, hist, pushed,
                   epoch, i, job_counter, active_jobs, time,
                   input, pred_input, scen_weight_input>>

Next ==
    \/ ProcessOrder(GenOrder(epoch, i, customers))
    \/ AdvanceEpoch
    \/ ProcessOperation(GenOperation(epoch, i, machines, job_counter + 1))
    \/ MfgAdvanceEpoch
    \/ \E ops \in SUBSET Operators : WorkerStep(ops)

Spec == Init /\ [][Next]_vars

\* The manager late in a run, where the u64 counter comes to its end.  Two
\* of the configurations bring the manager into a state that every further
\* call reproduces but for the counter, whatever the orders, so that its
\* state any number of calls later is known:
\*   CfgSingleScenario - the call that takes id n leaves scenario n (the
\*     root's child for the call's order) alone in the active set;
\*   CfgTies - all weights tie and the stable sort keeps the survivors in
\*     front, so from the third call on the beam holds scenarios 1, 2 and 4
\*     (the root's children of the first three orders) and every call takes
\*     four ids and retires their scenarios: a call starts at a counter of
\*     3 modulo 4, as u64::MAX is.
RootChild(c, id) ==
    [id |-> id, parent |-> None, depth |-> 1,
     weight |-> ProbMul(Prob(1, 1), c.branch_prob)]

RootChildOverlay(c, id, order) ==
    MakeOverlay("retail", id, order.customer_id, predict_delta(c, order))

LateSingleScenario(nid, order) ==
    /\ cfg = CfgSingleScenario
    /\ next_id = nid
    /\ active = <<RootChild(cfg, nid - 1)>>
    /\ overlays = (nid - 1) :> RootChildOverlay(cfg, nid - 1, order)

TiesBeam(custs) ==
    [j \in 1..3 |-> [id |-> <<1, 2, 4>>[j], order |-> GenOrder(j - 1, 0, custs)]]

LateTies(nid) ==
    /\ cfg = CfgTies
    /\ next_id = nid
    /\ active = [j \in 1..3 |-> RootChild(cfg, TiesBeam(customers)[j].id)]
    /\ overlays = [id \in {1, 2, 4} |->
                     LET j == CHOOSE k \in 1..3 : TiesBeam(customers)[k].id = id
                     IN  RootChildOverlay(cfg, id, TiesBeam(customers)[j].order)]

\* The runs of the program come through these states: after call n of
\* CfgSingleScenario (n >= 1) the counter is n + 1, after call n of CfgTies
\* (n >= 3) it is 4n - 5.  The batches of both hold one order.
LateStatesAreOfTheRun ==
    /\ (cfg = CfgSingleScenario /\ calls >= 1) =>
            LateSingleScenario(calls + 1, GenOrder(calls - 1, 0, customers))
    /\ (cfg = CfgTies /\ calls >= 3) => LateTies(4 * calls - 5)

\* Calls before the end of the counter at which the late runs are taken up.
LateCalls == 2

\* The orders of the generator differ, for the manager, in customer and
\* amount: the first order of the batches 0..customers-1 gives each customer.
LateOrders == {GenOrder(b, 0, customers) : b \in 0..(customers - 1)}

InitWrap ==
    /\ cfg \in {CfgSingleScenario, CfgTies}
    /\ customers \in 1..NumKeys
    /\ machines = 0
    /\ \E k \in 0..LateCalls :
          \/ \E order \in LateOrders : LateSingleScenario(-1 - k, order)
          \/ LateTies(-1 - 4 * k)
    /\ NewDriver

\* One call of expand_order on the manager alone: the driver and the
\* dataflow are left out, outcome and hist are what an observer sees from
\* here on.
ExpandLate(order) ==
    /\ calls < MaxEvents
    /\ LET r == expand_order(cfg, next_id, active, overlays, order)
       IN  /\ next_id' = r.next_id
           /\ active' = r.active
           /\ overlays' = r.overlays
           /\ outcome' = r.outcome
           /\ hist' = Observe(hist, r.outcome, 0)
    /\ calls' = calls + 1
    /\ UNCHANGED <<cfg, customers, machines, metrics, epoch, i, pushed,
                   job_counter, active_jobs, time, frontier, done,
                   input, pred_input, scen_weight_input, outputs>>

NextWrap == \E order \in LateOrders : ExpandLate(order)

SpecWrap == InitWrap /\ [][NextWrap]_vars

\* The dataflow on its own, as a function of its base input.  The reductions
\* are written for updates of either sign, which an InputSession takes
\* (insert, remove), while the generators of the demos only insert: here the
\* base input is driven by any bounded sequence of insertions and of
\* retractions of records that are present, with no scenario manager at work.
BaseRecords(dom) ==
    IF dom = "retail"
    THEN [order_id    : {0},
          customer_id : 1..2,
          lines       : {<<[qty |-> 1, price_cents |-> 50]>>,
                         <<[qty |-> 1, price_cents |-> 100]>>}]
    ELSE {[kind |-> k, job_id |-> 1, machine_id |-> m] :
              k \in {"OperationStart", "OperationComplete"}, m \in 1..2}

UpdateBase(rec, diff) ==
    /\ ~Waiting
    /\ pushed < MaxUpdates
    /\ diff = -1 => Count(input, rec) > 0
    /\ input' = Plus(input, Single(rec, diff))
    /\ i' = i + 1
    /\ pushed' = pushed + 1
    /\ UNCHANGED <<cfg, customers, machines, next_id, active, overlays, outcome,
                   calls, hist, metrics, epoch, job_counter, active_jobs, time,
                   frontier, done, pred_input, scen_weight_input, outputs>>

AdvanceInputs ==
    /\ ~Waiting
    /\ epoch < MaxUpdates
    /\ AdvanceAndFlush
    /\ UNCHANGED <<cfg, customers, machines, next_id, active, overlays, outcome,
                   calls, hist, metrics, pushed, job_counter, active_jobs, frontier,
                   input, pred_input, scen_weight_input>>

NextDataflow ==
    \/ \E rec \in BaseRecords(cfg.domain), diff \in {1, -1} : UpdateBase(rec, diff)
    \/ AdvanceInputs
    \/ \E ops \in SUBSET Operators : WorkerStep(ops)

\* The populations of the generators play no part here: the smallest will do.
\* Of the options the base operators read the domain and top_k: one
\* configuration of each pair that occurs.
InitDataflow ==
    /\ Start
    /\ cfg \in {CfgBeamEviction, CfgRootGrowth, CfgMfg}
    /\ customers <= 1
    /\ machines <= 1

SpecDataflow == InitDataflow /\ [][NextDataflow]_vars

----------------------------------------------------------------------------
(* Vocabulary of the properties. *)

SeqSet(s) == {s[j] : j \in DOMAIN s}

ActiveIds == {active[j].id : j \in DOMAIN active}

\* The batch is complete and the wait loop has exited.
EpochClosed == ~Waiting /\ i = 0 /\ epoch > 0

\* a precedes b in the beam ranking: heavier first, then lower id.
RankedBefore(a, b) ==
    ProbLt(b.weight, a.weight) \/ (ProbEq(a.weight, b.weight) /\ a.id < b.id)

\* p precedes q among (value, key) pairs: larger value first, then lower key.
PairBefore(p, q) == p[1] > q[1] \/ (p[1] = q[1] /\ p[2] < q[2])

\* The first K pairs of a set of (value, key) pairs in that order.
FirstK(pairs, K) ==
    {p \in pairs : Cardinality({q \in pairs : PairBefore(q, p)}) < K}

\* The per-key aggregate, from the contributions themselves: the keys with a
\* contribution (key, value), and the sum of value times multiplicity.
Contributions == BaseDeltas(cfg.domain, input)

ContributingKeys == {r[1] : r \in DOMAIN Contributions}

RECURSIVE ValueSum(_)
ValueSum(S) ==
    IF S = {} THEN 0
    ELSE LET r == CHOOSE x \in S : TRUE
         IN  r[2] * Contributions[r] + ValueSum(S \ {r})

AggregateOf(k) == ValueSum({r \in DOMAIN Contributions : r[1] = k})

AggregatePairs == {<<AggregateOf(k), k>> : k \in ContributingKeys}

\* The records of a keyed collection under key k, and whether every record
\* of a collection has multiplicity 1.
Under(coll, k) == {r[2] : r \in {x \in DOMAIN coll : x[1] = k}}

AllOnce(coll) == \A r \in DOMAIN coll : coll[r] = 1

\* The scenario-adjusted aggregates of scenario s: every base total, with the
\* total of the scenario's overlay key shifted by the overlay's delta.
AdjustedPairs(s) ==
    {<<r[2] + (IF r[1] = OverlayKey(overlays[s]) THEN OverlayDelta(overlays[s]) ELSE 0),
       r[1]>> : r \in DOMAIN totals}

\* The candidates of the dataflow at the closed epoch.
CandidatesNow ==
    Candidates(ScenWeights(scen_weight_input), topk, PredTotals(pred_input), totals)

----------------------------------------------------------------------------
(* C1 .. C10 *)

\* C1: after every expand call the active set holds at most beam_width
\* scenarios.
C1_ActiveWithinBeam == Len(active) <= cfg.beam_width

\* Reached: an expand call filled the beam and turned a candidate away.
C1_Witness ==
    /\ calls > 0
    /\ Len(active) = cfg.beam_width
    /\ \E j \in DOMAIN outcome.retired : outcome.retired[j] \in SeqSet(outcome.created)

\* C2: between expand calls the overlay map's key set is the active set's id
\* set (one entry per active scenario, stored under its own id), no scenario
\* retired by the last call has an entry, and the map holds at most beam_width
\* entries.
C2_OverlayKeysAreActiveIds ==
    /\ DOMAIN overlays = ActiveIds
    /\ Cardinality(ActiveIds) = Len(active)
    /\ \A id \in DOMAIN overlays : overlays[id].scenario_id = id
    /\ \A j \in DOMAIN outcome.retired : outcome.retired[j].id \notin DOMAIN overlays
    /\ Cardinality(DOMAIN overlays) <= cfg.beam_width

\* Reached: a call retired a previously active scenario and a fresh one, and
\* removed their overlays, while others stay active.
C2_Witness ==
    /\ Len(active) > 0
    /\ Len(outcome.overlays_removed) >= 2
    /\ \E j \in DOMAIN outcome.retired : outcome.retired[j] \notin SeqSet(outcome.created)
    /\ \E j \in DOMAIN outcome.retired : outcome.retired[j] \in SeqSet(outcome.created)

\* C3: after every expand call every active scenario has depth in
\* 1..max_depth and weight >= min_prob.
C3_DepthAndWeightBounds ==
    \A j \in DOMAIN active :
        /\ active[j].depth >= 1
        /\ active[j].depth <= cfg.max_depth
        /\ ProbGe(active[j].weight, cfg.min_prob)

\* Reached: an active scenario at depth max_depth, next to shallower ones.
C3_Witness ==
    /\ \E j \in DOMAIN active : active[j].depth = cfg.max_depth
    /\ \E j \in DOMAIN active : active[j].depth = 1
    /\ cfg.max_depth > 1

\* C4: after every expand call the active set is ordered by weight descending,
\* and of two active scenarios of equal weight the one with the lower id comes
\* first.
C4_OrderedByWeightThenId ==
    \A j, k \in DOMAIN active :
        j < k => /\ ProbGe(active[j].weight, active[k].weight)
                 /\ ProbEq(active[j].weight, active[k].weight)
                       => active[j].id < active[k].id

\* Reached: two equal-weight scenarios created by the same call are both
\* active, behind an equal-weight survivor of that call.
C4_Witness ==
    \E j, k, l \in DOMAIN active :
        /\ j < k /\ k < l
        /\ ProbEq(active[j].weight, active[k].weight)
        /\ ProbEq(active[k].weight, active[l].weight)
        /\ active[j] \notin SeqSet(outcome.created)
        /\ active[k] \in SeqSet(outcome.created)
        /\ active[l] \in SeqSet(outcome.created)

\* C5: in every expand call the new active set is the first beam_width of
\* (survivors and created) ranked by weight descending, then lower id; every
\* other candidate is in the outcome's retired list with its overlay in
\* overlays_removed; and with beam_width=2, branch_prob=0.9, min_prob=0.01,
\* max_depth=5 the active set holds two scenarios from the second call on.
C5_Step ==
    calls' = calls + 1 =>
        LET cands == SeqSet(Survivors(cfg, active)) \cup SeqSet(outcome'.created)
            n     == Min(cfg.beam_width, Cardinality(cands))
        IN  /\ Len(active') = n
            /\ \A j \in 1..n :
                  /\ active'[j] \in cands
                  /\ Cardinality({c \in cands : RankedBefore(c, active'[j])}) = j - 1
            /\ \A c \in cands \ SeqSet(active') :
                  /\ c \in SeqSet(outcome'.retired)
                  /\ \E j \in DOMAIN outcome'.overlays_removed :
                        outcome'.overlays_removed[j].scenario_id = c.id
            /\ (cfg = CfgBeamEviction /\ calls' >= 2) => Len(active') = 2

C5_BeamEnforcement == [][C5_Step]_vars

\* Reached: under the beam-eviction configuration, the third call keeps the two
\* root children and retires the three scenarios it created.
C5_Witness ==
    /\ cfg = CfgBeamEviction
    /\ calls = 3
    /\ Len(active) = 2
    /\ Len(outcome.created) = 3
    /\ Len(outcome.retired) = 3
    /\ Len(outcome.overlays_removed) = 3

\* C6: after every epoch, for every active scenario s, the scenario top-K of s
\* is the top-K (value descending, key ascending) of the scenario-adjusted
\* aggregates, in which every grouping key has exactly one value.
C6_ScenarioTopKIsTopKOfAdjusted ==
    EpochClosed =>
        /\ AllOnce(scenario_topk)
        /\ \A s \in ActiveIds :
              Under(scenario_topk, s) = FirstK(AdjustedPairs(s), cfg.top_k)

\* C7: when no overlay delta is negative, for every active scenario s the
\* candidates of s contain every pair of the top-K of the scenario-adjusted
\* aggregates.
C7_CandidatesComplete ==
    (EpochClosed /\ \A id \in DOMAIN overlays : OverlayDelta(overlays[id]) >= 0) =>
        \A s \in ActiveIds :
            FirstK(AdjustedPairs(s), cfg.top_k) \subseteq Under(CandidatesNow, s)

\* Reached: the overlay of an active scenario lifts a customer from outside
\* the base top-K into the top-K of the adjusted aggregates, past a customer
\* of the base top-K, and the candidates of that scenario hold the pair.
C7_Witness ==
    /\ EpochClosed
    /\ \E s \in ActiveIds :
          \E p \in FirstK(AdjustedPairs(s), cfg.top_k) :
              /\ p[2] = OverlayKey(overlays[s])
              /\ p[2] \notin {q[2] : q \in Under(topk, Unit)}
              /\ OverlayDelta(overlays[s]) >= 0
              /\ p \in Under(CandidatesNow, s)
              /\ \E q \in Under(topk, Unit) : q \notin FirstK(AdjustedPairs(s), cfg.top_k)

\* C8: at the end of each epoch the base top-K has at most K entries and is
\* the first K (value, key) pairs of the per-key aggregate by value
\* descending, then key ascending; with K=2: key 1=100 alone gives
\* [(100,1)], with key 2=50 added [(100,1),(50,2)], and with key 1's 100
\* retracted [(50,2)].
C8_BaseTopKIsFirstK ==
    EpochClosed =>
        /\ AllOnce(topk)
        /\ Cardinality(DOMAIN topk) <= cfg.top_k
        /\ Under(topk, Unit) = FirstK(AggregatePairs, cfg.top_k)
        /\ DOMAIN topk = {<<Unit, p>> : p \in Under(topk, Unit)}
        /\ cfg.top_k = 2 =>
              /\ Contributions = Single(<<1, 100>>, 1)
                    => Under(topk, Unit) = {<<100, 1>>}
              /\ Contributions = Plus(Single(<<1, 100>>, 1), Single(<<2, 50>>, 1))
                    => Under(topk, Unit) = {<<100, 1>>, <<50, 2>>}
              /\ Contributions = Single(<<2, 50>>, 1)
                    => Under(topk, Unit) = {<<50, 2>>}

\* Reached: with K=2, after key 1=100 and key 2=50 were inserted, the epoch
\* that retracts key 1's 100 leaves [(50,2)].
C8_Witness ==
    /\ EpochClosed
    /\ cfg.top_k = 2
    /\ pushed = 3
    /\ Contributions = Single(<<2, 50>>, 1)
    /\ Under(topk, Unit) = {<<50, 2>>}
    /\ topk_diff = Single(<<Unit, <<100, 1>>>>, -1)

\* C9: at the end of every epoch the per-key aggregate holds, for exactly the
\* keys with a contribution, the sum of value times multiplicity; a key whose
\* contributions were all retracted is absent.
C9_TotalsAreSums ==
    EpochClosed =>
        /\ AllOnce(totals)
        /\ DOMAIN totals = {<<k, AggregateOf(k)>> : k \in ContributingKeys}

\* Reached: one key's only contribution was retracted in the last epoch and
\* the key is gone from the aggregate, while another key keeps its sum.
C9_Witness ==
    /\ EpochClosed
    /\ \E r \in DOMAIN totals_diff :
          totals_diff[r] = -1 /\ r[1] \notin KeysOf(totals)
    /\ DOMAIN totals # {}

\* C10: whenever a key's aggregate changes from v to v' across an epoch, the
\* totals diffs of that epoch hold a retraction of (key, v) and an insertion
\* of (key, v'); and the sum of all totals diffs is the current aggregate with
\* every record at multiplicity 1.
C10_RetractThenInsert ==
    EpochClosed =>
        LET before == Minus(totals_acc, totals_diff)
        IN  /\ \A r \in DOMAIN before :
                  (r[1] \in ContributingKeys /\ r[2] # AggregateOf(r[1])) =>
                      /\ Count(totals_diff, r) = -1
                      /\ Count(totals_diff, <<r[1], AggregateOf(r[1])>>) = 1
            /\ totals_acc = [r \in {<<k, AggregateOf(k)>> : k \in ContributingKeys} |-> 1]

\* Reached: an epoch changed a key's total from v to a different v'.
C10_Witness ==
    /\ EpochClosed
    /\ \E r, q \in DOMAIN totals_diff :
          /\ r[1] = q[1]
          /\ totals_diff[r] = -1
          /\ totals_diff[q] = 1
          /\ q \in DOMAIN totals_acc

----------------------------------------------------------------------------
(* C11 .. C20 *)

\* The weight of the active scenario s.
WeightOf(s) == (CHOOSE m \in SeqSet(active) : m.id = s).weight

\* The alert predicate of the domain on a (key, value, weight) triple.
AlertPredicate(key, value, weight) ==
    IF cfg.domain = "retail"
    THEN key = cfg.target_customer /\ ProbGe(weight, cfg.prob_threshold)
    ELSE value >= cfg.backlog_threshold /\ ProbGe(weight, cfg.prob_threshold)

\* The alert tuples called for by the scenario top-K and the active scenarios.
ExpectedAlerts ==
    {<<r[1], r[2][2], r[2][1], WeightOf(r[1])>> :
        r \in {x \in DOMAIN scenario_topk :
                  /\ x[1] \in ActiveIds
                  /\ AlertPredicate(x[2][2], x[2][1], WeightOf(x[1]))}}

\* The target customer is outside the base top-K, one scenario s of weight 0.5
\* is active, and its overlay lifts the target into the top-K of the
\* adjusted aggregates.
TargetLifted(s) ==
    /\ cfg.domain = "retail"
    /\ ActiveIds = {s}
    /\ ProbEq(WeightOf(s), Prob(1, 2))
    /\ ProbGe(WeightOf(s), cfg.prob_threshold)
    /\ cfg.target_customer \in KeysOf(totals)
    /\ cfg.target_customer \notin {p[2] : p \in Under(topk, Unit)}
    /\ OverlayKey(overlays[s]) = cfg.target_customer
    /\ \E p \in FirstK(AdjustedPairs(s), cfg.top_k) : p[2] = cfg.target_customer

\* C11: at the end of every epoch the alerts are exactly the tuples
\* (scenario, key, value, weight) with (value, key) in the scenario's top-K,
\* weight the scenario's weight and the domain's predicate true, once each;
\* and when the target is outside the base top-K and the only scenario, of
\* weight 0.5, lifts it into its top-K, the one alert is
\* (s, T, base(T) + delta, 0.5).
C11_AlertsAreThePredicateHits ==
    EpochClosed =>
        /\ AllOnce(alerts)
        /\ DOMAIN alerts = ExpectedAlerts
        /\ \A s \in ActiveIds :
              TargetLifted(s) =>
                  DOMAIN alerts =
                      {<<s, cfg.target_customer,
                         AggregateOf(cfg.target_customer) + OverlayDelta(overlays[s]),
                         Prob(1, 2)>>}

\* Reached: the lifted-target case, with its single alert.
C11_Witness ==
    /\ EpochClosed
    /\ \E s \in ActiveIds : TargetLifted(s)
    /\ Cardinality(DOMAIN alerts) = 1

\* C12: an alert tuple present at the end of one epoch and still present at
\* the end of the next produces no diff in that next epoch, and the net diff
\* of every alert tuple within an epoch is -1, 0 or +1 (+1 for a tuple that
\* appears, -1 for one that disappears): alerts shows every tuple at most once
\* per epoch.  The updates of an epoch come out over the worker steps of the
\* wait loop, those that a change of scen_weights causes before those that
\* a change of scenario_topk causes; the epoch ends with the step that
\* leaves the loop.
C12_AtMostOnce ==
    /\ \A t \in DOMAIN alerts_emitted : alerts_emitted[t] = 1
    /\ \A t \in DOMAIN alerts_diff : alerts_diff[t] \in {-1, 1}
    /\ \A t \in DOMAIN alerts : alerts[t] = 1

C12_Step ==
    (Waiting /\ ~Waiting') =>
        /\ \A t \in DOMAIN alerts_closed \cap DOMAIN alerts' :
              t \notin DOMAIN alerts_emitted' /\ t \notin DOMAIN alerts_diff'
        /\ \A t \in DOMAIN alerts' \ DOMAIN alerts_closed : Count(alerts_diff', t) = 1
        /\ \A t \in DOMAIN alerts_closed \ DOMAIN alerts' : Count(alerts_diff', t) = -1

C12_AlertsDeduplicated == []C12_AtMostOnce /\ [][C12_Step]_vars

\* Reached: after the second epoch or later, one alert carried over without a
\* diff while another disappeared, with a diff of -1.
C12_Witness ==
    /\ EpochClosed
    /\ epoch >= 2
    /\ \E t \in DOMAIN alerts : t \notin DOMAIN alerts_emitted
    /\ \E t \in DOMAIN alerts_diff : alerts_diff[t] = -1 /\ t \notin DOMAIN alerts

\* Every output shows the accumulated inputs: no diff that the pushed inputs
\* cause is still to come.
OutputsComplete ==
    LET tot == Totals(Contributions)
        tk  == TopK(tot, cfg.top_k)
        sw  == ScenWeights(scen_weight_input)
        stk == ScenarioTopK(Candidates(sw, tk, PredTotals(pred_input), tot), cfg.top_k)
    IN  /\ totals = tot
        /\ topk = tk
        /\ scenario_topk = stk
        /\ DOMAIN alerts = ExpectedAlerts
        /\ totals_acc = totals

\* A step that pushes a diff into one of the three inputs.
PushesDiff ==
    input' # input \/ pred_input' # pred_input \/ scen_weight_input' # scen_weight_input

\* C13: the diffs of a batch are pushed at time e, while nothing is awaited;
\* then all three inputs advance to e+1 and the worker is stepped until the
\* probe's frontier is no longer less than e+1; when the wait loop exits,
\* every output diff of epoch e has been produced and no diff of epoch e+1
\* has been pushed; epochs complete one by one in increasing order.
C13_Step ==
    /\ PushesDiff =>
          /\ ~Waiting
          /\ time = AllAt(epoch)
          /\ frontier = epoch
    /\ epoch' # epoch =>
          /\ epoch' = epoch + 1
          /\ ~Waiting
          /\ time' = AllAt(epoch + 1)
          /\ frontier' = frontier
          /\ Waiting'
    /\ frontier' # frontier =>
          /\ Waiting
          /\ frontier' = frontier + 1
          /\ frontier' = epoch
          /\ ~Waiting'
    /\ Waiting => ~PushesDiff /\ epoch' = epoch /\ time' = time

\* Once the wait loop has exited and before the next batch pushes anything,
\* the outputs are complete and the frontier is at the epoch.
C13_AtExit ==
    /\ ~Waiting => frontier = epoch
    /\ (~Waiting /\ i = 0) => OutputsComplete

C13_EpochDriver == []C13_AtExit /\ [][C13_Step]_vars

\* Reached: the wait loop of the third epoch has exited with the epoch's
\* diffs produced.
C13_Witness ==
    /\ EpochClosed
    /\ epoch = 3
    /\ frontier = 3
    /\ time = AllAt(3)
    /\ pushed = 3
    /\ totals_diff # EmptyColl
    /\ alerts_diff # EmptyColl

\* C15: an id that was in the retired list of some call is in neither the
\* active set nor the overlay map in any later state (ids do not wrap within
\* the bounds).
C15_NoResurrection ==
    \A id \in hist.retired : id \notin ActiveIds /\ id \notin DOMAIN overlays

\* Reached: a scenario was retired by an earlier call, and a later call has
\* created and kept a new one.
C15_Witness ==
    /\ calls = 3
    /\ \E id \in hist.retired :
          /\ id \notin {outcome.retired[j].id : j \in DOMAIN outcome.retired}
          /\ \E a \in ActiveIds : a > id
    /\ \E j \in DOMAIN outcome.created : outcome.created[j].id \in ActiveIds

\* C16: the overlay of a scenario is inserted once, by the call that creates
\* the scenario, and removed once, by the call that retires it; in between
\* its (scenario_id, key, delta) triple does not change, and no call writes
\* the overlay of a scenario that was already active.
C16_Step ==
    calls' = calls + 1 =>
        /\ \A id \in DOMAIN overlays \cap DOMAIN overlays' : overlays'[id] = overlays[id]
        /\ \A j \in DOMAIN outcome'.overlays_added :
              LET ov == outcome'.overlays_added[j]
              IN  /\ ov.scenario_id \notin DOMAIN overlays
                  /\ ov.scenario_id \notin ActiveIds
                  /\ outcome'.created[j].id = ov.scenario_id
                  /\ Count(hist'.added, ov.scenario_id) = 1
        /\ Len(outcome'.overlays_added) = Len(outcome'.created)
        /\ \A id \in DOMAIN overlays' \ DOMAIN overlays :
              \E j \in DOMAIN outcome'.overlays_added :
                  outcome'.overlays_added[j] = overlays'[id]
        /\ \A j \in DOMAIN outcome'.overlays_removed :
              LET ov == outcome'.overlays_removed[j]
              IN  /\ ov.scenario_id \notin DOMAIN overlays'
                  /\ ov.scenario_id \in {outcome'.retired[k].id : k \in DOMAIN outcome'.retired}
                  /\ Count(hist'.removed, ov.scenario_id) = 1
                  /\ \/ ov.scenario_id \in DOMAIN overlays /\ overlays[ov.scenario_id] = ov
                     \/ ov \in SeqSet(outcome'.overlays_added)
        /\ Len(outcome'.overlays_removed) = Len(outcome'.retired)
        /\ DOMAIN overlays \ DOMAIN overlays' \subseteq
              {outcome'.overlays_removed[j].scenario_id : j \in DOMAIN outcome'.overlays_removed}

C16_SingleOverlay == [][C16_Step]_vars

\* Reached: an overlay inserted by the first call is still in place, unchanged,
\* after the third, while others were inserted and removed meanwhile.
C16_Witness ==
    /\ calls = 3
    /\ 1 \in DOMAIN overlays
    /\ Count(hist.added, 1) = 1
    /\ Count(hist.removed, 1) = 0
    /\ \E id \in DOMAIN hist.removed : id \in DOMAIN hist.added /\ id \notin DOMAIN overlays
    /\ \E id \in DOMAIN overlays : OverlayKey(overlays[id]) # OverlayKey(overlays[1])

\* C17: ids are given out from 1 on, each greater than every id given out
\* before, within a call and across calls; no id is given twice, and id 0 is
\* never given to a scenario.
C17_IdsIncrease ==
    /\ \A j, k \in DOMAIN hist.allocated :
          j < k => hist.allocated[j] < hist.allocated[k]
    /\ \A j \in DOMAIN hist.allocated : hist.allocated[j] # 0
    /\ Len(hist.allocated) > 0 => hist.allocated[1] = 1
    /\ \A j \in DOMAIN hist.allocated : hist.allocated[j] < next_id
    /\ \A id \in ActiveIds \cup DOMAIN overlays : id # 0

\* Reached: several ids given out by one call, after ids given out by
\* earlier calls.
C17_Witness ==
    /\ calls = 3
    /\ Len(outcome.created) >= 3
    /\ Len(hist.allocated) > Len(outcome.created) + 1
    /\ hist.allocated[Len(hist.allocated)] = next_id - 1

\* The active scenarios that pass the cull: weight >= min_prob and depth below
\* max_depth.
SurvivorCount ==
    Cardinality({j \in DOMAIN active :
                    /\ ProbGe(active[j].weight, cfg.min_prob)
                    /\ active[j].depth < cfg.max_depth})

\* C18: every expand call creates at most one scenario per survivor of its
\* cull step, plus one for the root.
C18_Step ==
    calls' = calls + 1 => Len(outcome'.created) <= SurvivorCount + 1

C18_CreatedBounded == [][C18_Step]_vars

\* Reached: calls that created three scenarios or more, one per parent.
C18_Witness ==
    /\ calls = 3
    /\ Len(outcome.created) >= 3
    /\ \A j, k \in DOMAIN outcome.created :
          j # k => outcome.created[j].parent # outcome.created[k].parent

\* C19: with branch_prob = 0, whatever the other parameters (min_prob = 0
\* included), no expand call creates a scenario: created, overlays_added and
\* the active set stay empty for the whole run.
C19_ZeroBranchCreatesNothing ==
    ProbEq(cfg.branch_prob, Prob(0, 1)) =>
        /\ outcome.created = <<>>
        /\ outcome.overlays_added = <<>>
        /\ active = <<>>
        /\ hist.allocated = <<>>

\* C20: with beam_width = 0, after every expand call the active set and the
\* overlay map are empty, and every scenario the call created is in the
\* call's retired list, with its overlay in overlays_added and in
\* overlays_removed.
C20_ZeroBeamKeepsNothing ==
    cfg.beam_width = 0 =>
        /\ active = <<>>
        /\ overlays = EmptyColl
        /\ Len(outcome.overlays_added) = Len(outcome.created)
        /\ \A j \in DOMAIN outcome.created :
              /\ outcome.created[j] \in SeqSet(outcome.retired)
              /\ outcome.overlays_added[j].scenario_id = outcome.created[j].id
              /\ outcome.overlays_added[j] \in SeqSet(outcome.overlays_removed)

\* Reached: with beam_width = 0, the third call created a scenario and
\* retired it at once.
C20_Witness ==
    /\ cfg.beam_width = 0
    /\ calls = 3
    /\ Len(outcome.created) = 1
    /\ outcome.retired = outcome.created
    /\ outcome.overlays_removed = outcome.overlays_added
    /\ hist.retired = {1, 2, 3}

----------------------------------------------------------------------------
(* C21 .. C30 *)

\* C21: with max_depth = 0 no expand call creates a scenario: every call
\* returns an empty outcome and leaves next_id, the active set and the
\* overlay map as they were.
C21_Step ==
    (cfg.max_depth = 0 /\ calls' = calls + 1) =>
        /\ outcome' = EmptyOutcome
        /\ next_id' = next_id
        /\ active' = active
        /\ overlays' = overlays

C21_ZeroDepthCreatesNothing ==
    [](cfg.max_depth = 0 => (next_id = 1 /\ active = <<>> /\ overlays = EmptyColl))
    /\ [][C21_Step]_vars

\* Reached: three expand calls under max_depth = 0.
C21_Witness ==
    /\ cfg.max_depth = 0
    /\ calls = 3
    /\ outcome = EmptyOutcome
    /\ next_id = 1
    /\ DOMAIN totals # {}

\* All events so far are the same order but for its id: the same customer and
\* the same lines.
IdenticalEvents ==
    /\ cfg.domain = "retail"
    /\ Cardinality(DOMAIN input) = calls
    /\ \E o \in DOMAIN input :
          \A p \in DOMAIN input : p.customer_id = o.customer_id /\ p.lines = o.lines

\* The weights of the active scenarios, as a bag.
ActiveWeights == PushAll(EmptyColl, [j \in DOMAIN active |-> active[j].weight], 1, 1)

\* C22: with beam_width=4, min_prob=0.1, branch_prob=0.5, max_depth=3 and
\* three identical events, the active set has 1, 2, 3 scenarios after the
\* three calls, of weights {0.5}, {0.5, 0.25}, {0.5, 0.25, 0.125}.
C22_RootOnlyGrowth ==
    (cfg = CfgRootGrowth /\ IdenticalEvents) =>
        /\ calls = 1 => ActiveWeights = Single(Prob(1, 2), 1)
        /\ calls = 2 => ActiveWeights = Plus(Single(Prob(1, 2), 1), Single(Prob(1, 4), 1))
        /\ calls = 3 => ActiveWeights =
                            Plus(Single(Prob(1, 2), 1),
                                 Plus(Single(Prob(1, 4), 1), Single(Prob(1, 8), 1)))

\* C22 as the code has it: the root spawns a child on every call, so the
\* active set has 1, 3, 4 scenarios after the three calls, of weights
\* {0.5}, {0.5, 0.5, 0.25}, {0.5, 0.5, 0.5, 0.25}.
C22_RootGrowthEveryCall ==
    (cfg = CfgRootGrowth /\ IdenticalEvents) =>
        /\ calls = 1 => ActiveWeights = Single(Prob(1, 2), 1)
        /\ calls = 2 => ActiveWeights = Plus(Single(Prob(1, 2), 2), Single(Prob(1, 4), 1))
        /\ calls = 3 => ActiveWeights = Plus(Single(Prob(1, 2), 3), Single(Prob(1, 4), 1))

\* Reached: the third identical event under the root-growth parameters.
C22_Witness ==
    /\ cfg = CfgRootGrowth
    /\ IdenticalEvents
    /\ calls = 3
    /\ Len(active) = 4

\* C23: with beam_width=4, min_prob=0.3, branch_prob=0.5, max_depth=3 and
\* three identical events, the active set after each of the three calls is
\* one scenario of weight 0.5.
C23_PruningUnderMinProb ==
    (cfg = CfgPruning /\ IdenticalEvents /\ calls >= 1) =>
        ActiveWeights = Single(Prob(1, 2), 1)

\* C23 as the code has it: no weight-0.25 child is ever admitted, but the
\* root spawns a weight-0.5 child on every call, so the active set after
\* the n-th of the three calls is n scenarios of weight 0.5.
C23_OnlyRootChildrenAdmitted ==
    (cfg = CfgPruning /\ IdenticalEvents /\ calls \in 1..3) =>
        ActiveWeights = Single(Prob(1, 2), calls)

\* Reached: the third identical event under min_prob = 0.3.
C23_Witness ==
    /\ cfg = CfgPruning
    /\ IdenticalEvents
    /\ calls = 3
    /\ Len(active) = 3
    /\ \A j \in DOMAIN active : active[j].depth = 1

\* The scenarios whose creation and retirement were both pushed at time t.
ShortLived(t) ==
    {s \in DOMAIN hist.born \cap DOMAIN hist.died :
        hist.born[s] = t /\ hist.died[s] = t}

\* The scenario ids named by the records of a scenario output.
SidsOf(coll) == {r[1] : r \in DOMAIN coll}

\* C24: a scenario created and retired within one epoch (its overlay and its
\* weight are pushed and exactly retracted at the same time) shows in no diff
\* of the scenario top-K or of the alerts for that epoch.
C24_ShortLivedLeaveNoDiff ==
    EpochClosed =>
        ShortLived(epoch - 1) \cap
            (SidsOf(scenario_topk_diff) \cup SidsOf(alerts_diff)
                \cup SidsOf(scenario_topk) \cup SidsOf(alerts)) = {}

\* Reached: an epoch closed in which a scenario was created and retired while
\* the scenario top-K changed for the scenarios that stayed.
C24_Witness ==
    /\ EpochClosed
    /\ ShortLived(epoch - 1) # {}
    /\ scenario_topk_diff # EmptyColl
    /\ \E s \in ShortLived(epoch - 1) :
          \E j \in DOMAIN outcome.overlays_removed : outcome.overlays_removed[j].scenario_id = s

\* The beam parameters are numerically valid: both probabilities in [0, 1]
\* (the width is unsigned and cannot be negative).
InUnitInterval(p) == ~ProbLt(p, Prob(0, 1)) /\ ~ProbLt(Prob(1, 1), p)

ValidBeamConfig(c) == InUnitInterval(c.min_prob) /\ InUnitInterval(c.branch_prob)

\* C25: a configuration whose min_prob or branch_prob lies outside [0, 1] is
\* rejected at startup: no expand call is ever made under it.
C25_InvalidConfigRejected == ~ValidBeamConfig(cfg) => calls = 0

\* The ids of the scenarios that are live when a call allocates: the active
\* scenarios that pass the cull.
LiveIds ==
    {active[j].id : j \in {k \in DOMAIN active :
                              /\ ProbGe(active[k].weight, cfg.min_prob)
                              /\ active[k].depth < cfg.max_depth}}

\* C26: also when the id counter wraps, an id given out by an expand call is
\* never the root id 0, never the id of a scenario live at that moment, and
\* no two active scenarios ever share an id.
C26_Step ==
    calls' = calls + 1 =>
        \A j \in DOMAIN outcome'.created :
            /\ outcome'.created[j].id # 0
            /\ outcome'.created[j].id \notin LiveIds
            /\ \A k \in 1..(j - 1) : outcome'.created[k].id # outcome'.created[j].id

C26_NoLiveIdReused ==
    [](\A j, k \in DOMAIN active : active[j].id = active[k].id => j = k)
    /\ [][C26_Step]_vars

\* The configured floor of the deltas.
MinDelta(c) == IF c.domain = "retail" THEN c.min_delta_cents ELSE c.min_delta_units

\* The predictor's outputs over the events of the workload.
PredictorOutputs(c) ==
    IF c.domain = "retail"
    THEN {SpendGrowthPredict(GenOrder(b, j, customers)) :
              b \in 0..MaxEvents, j \in 0..(c.batch_size - 1)}
    ELSE {QueueGrowthPredict(GenOperation(b, j, machines, 1)) :
              b \in 0..MaxEvents, j \in 0..(c.ops_per_batch - 1)}

\* A predictor output after the scaling step: untouched when the multiplier
\* is 1, multiplied and rounded otherwise.
ScaledOutput(c, raw) ==
    IF ProbEq(c.delta_multiplier, Prob(1, 1))
    THEN raw
    ELSE RoundDiv(raw * c.delta_multiplier[1], c.delta_multiplier[2])

\* The overlays of the overlay map and of the last outcome's overlays_added.
OverlaysInPlay ==
    {overlays[s] : s \in DOMAIN overlays} \cup SeqSet(outcome.overlays_added)

\* C27: every overlay in the overlay map and in overlays_added carries
\* delta = max(scaled predictor output, min_delta), hence delta >= min_delta;
\* the output is scaled by delta_multiplier unless the multiplier is 1.
C27_DeltasClamped ==
    \A ov \in OverlaysInPlay :
        /\ OverlayDelta(ov) >= MinDelta(cfg)
        /\ \E raw \in PredictorOutputs(cfg) :
              OverlayDelta(ov) = Max(ScaledOutput(cfg, raw), MinDelta(cfg))

\* Reached: an overlay whose scaled output (900) lies under the floor and
\* which carries the floor.
C27_Witness ==
    /\ overlays # EmptyColl
    /\ outcome.overlays_added # <<>>
    /\ ~ProbEq(cfg.delta_multiplier, Prob(1, 1))
    /\ \A raw \in PredictorOutputs(cfg) : ScaledOutput(cfg, raw) < MinDelta(cfg)
    /\ \A ov \in OverlaysInPlay : OverlayDelta(ov) = MinDelta(cfg)

\* The grouping key of the event that the step pushes into the base input.
PushedKeys ==
    {IF cfg.domain = "retail" THEN ev.customer_id ELSE ev.machine_id :
        ev \in {e \in DOMAIN input' : Count(input', e) = Count(input, e) + 1}}

\* child is a child of the root as the call makes it.
ChildOfRoot(child) ==
    /\ child.parent = None
    /\ child.depth = 1
    /\ ProbEq(child.weight, cfg.branch_prob)

\* child is a child of the survivor p as the call makes it.
ChildOfSurvivor(child, p) ==
    /\ child.parent = Some(p.id)
    /\ p.id \in LiveIds
    /\ p.id < child.id
    /\ child.depth = p.depth + 1
    /\ child.depth > 1
    /\ ProbEq(child.weight, ProbMul(p.weight, cfg.branch_prob))

\* C28: every scenario an expand call creates is a child of the root (no
\* parent, depth 1, weight branch_prob) or of a survivor of this call (parent
\* the survivor's id, which is smaller than its own, depth one more, weight
\* the survivor's times branch_prob); the overlays of one call all carry the
\* event's grouping key and one delta.
C28_Step ==
    calls' = calls + 1 =>
        /\ \A j \in DOMAIN outcome'.created :
              \/ ChildOfRoot(outcome'.created[j])
              \/ \E k \in DOMAIN active : ChildOfSurvivor(outcome'.created[j], active[k])
        /\ \A a \in SeqSet(outcome'.overlays_added) :
              /\ {OverlayKey(a)} = PushedKeys
              /\ \A b \in SeqSet(outcome'.overlays_added) : OverlayDelta(a) = OverlayDelta(b)

C28_ChildGeneration == [][C28_Step]_vars

\* Reached: a call made a child of the root and a child of a survivor, with
\* one overlay each.
C28_Witness ==
    /\ Len(outcome.created) >= 2
    /\ Len(outcome.overlays_added) = Len(outcome.created)
    /\ \E j, k \in DOMAIN outcome.created :
          /\ outcome.created[j].parent = None
          /\ outcome.created[k].parent # None
          /\ outcome.created[k].depth = 2
          /\ outcome.created[k].parent[1] < outcome.created[k].id

\* The scenario ids of a list of overlays, and the ids of a list of scenarios.
OverlayIds(deltas) == [j \in DOMAIN deltas |-> deltas[j].scenario_id]

MetaIds(metas) == [j \in DOMAIN metas |-> metas[j].id]

\* C29: in every outcome the overlays added are those of the scenarios
\* created and the overlays removed are those of the scenarios retired, one
\* each; no overlay is removed for a scenario that stays active.
C29_OverlayListsMatch ==
    /\ OverlayIds(outcome.overlays_added) = MetaIds(outcome.created)
    /\ OverlayIds(outcome.overlays_removed) = MetaIds(outcome.retired)
    /\ SeqSet(OverlayIds(outcome.overlays_removed)) \cap ActiveIds = {}

\* Reached: a call that created two scenarios, kept one and retired another
\* that had been active before.
C29_Witness ==
    /\ Len(outcome.overlays_added) >= 2
    /\ outcome.overlays_removed # <<>>
    /\ \E j \in DOMAIN outcome.retired : outcome.retired[j] \notin SeqSet(outcome.created)
    /\ \E j \in DOMAIN outcome.created : outcome.created[j].id \in ActiveIds

\* The active scenarios that sit at max_depth, in their order.
AtMaxDepth == SelectSeq(active, LAMBDA m : m.depth = cfg.max_depth)

\* C30: the cull of an expand call retires exactly the active scenarios of
\* depth max_depth (the weight test retires none: no active scenario is
\* below min_prob), so a scenario admitted at max_depth is gone after the
\* next call, room in the beam or not, and is the parent of no child.
C30_Step ==
    calls' = calls + 1 =>
        /\ Len(outcome'.retired) >= Len(AtMaxDepth)
        /\ SubSeq(outcome'.retired, 1, Len(AtMaxDepth)) = AtMaxDepth
        /\ \A m \in SeqSet(AtMaxDepth) :
              /\ m.id \notin {active'[j].id : j \in DOMAIN active'}
              /\ \A j \in DOMAIN outcome'.created : outcome'.created[j].parent # Some(m.id)
        /\ \A j \in DOMAIN active :
              active[j].depth < cfg.max_depth =>
                  \/ active[j] \in SeqSet(active')
                  \/ active[j] \in SeqSet(SubSeq(outcome'.retired, Len(AtMaxDepth) + 1,
                                                  Len(outcome'.retired)))

C30_CullIsTheDepthTest ==
    [](\A j \in DOMAIN active :
          ~ProbLt(active[j].weight, cfg.min_prob) /\ active[j].depth <= cfg.max_depth)
    /\ [][C30_Step]_vars

\* Reached: a scenario that was active at max_depth has just been retired by
\* a call that left room in the beam.
C30_Witness ==
    /\ Len(active) < cfg.beam_width
    /\ active # <<>>
    /\ \E j \in DOMAIN outcome.retired :
          /\ outcome.retired[j].depth = cfg.max_depth
          /\ outcome.retired[j] \notin SeqSet(outcome.created)
          /\ ~ProbLt(outcome.retired[j].weight, cfg.min_prob)

----------------------------------------------------------------------------
(* C31 .. C36 *)

\* p raised to the n-th power.
ProbPow(p, n) == <<p[1] ^ n, p[2] ^ n>>

\* The scenarios that the manager holds or has just reported.
Materialized ==
    SeqSet(active) \cup SeqSet(outcome.created) \cup SeqSet(outcome.retired)

\* a precedes b by depth, then by id.
ShallowerThenOlder(a, b) ==
    a.depth < b.depth \/ (a.depth = b.depth /\ a.id < b.id)

\* The scenarios the beam loop of the last call turned away: the retired ones
\* that were candidates (created by the call, or below max_depth).
BeamEvicted ==
    {m \in SeqSet(outcome.retired) :
        m \in SeqSet(outcome.created) \/ m.depth < cfg.max_depth}

\* C31: every materialized scenario has weight branch_prob ^ depth; with
\* 0 < branch_prob < 1 a heavier scenario is a shallower one, the active set
\* is ordered by depth and then id, and every scenario the beam turned away
\* comes after every scenario it kept in that order.
C31_WeightIsPowerOfDepth ==
    /\ \A m \in Materialized : ProbEq(m.weight, ProbPow(cfg.branch_prob, m.depth))
    /\ (ProbLt(Prob(0, 1), cfg.branch_prob) /\ ProbLt(cfg.branch_prob, Prob(1, 1))) =>
          /\ \A a, b \in Materialized : ProbLt(b.weight, a.weight) <=> a.depth < b.depth
          /\ \A j, k \in DOMAIN active : j < k => ShallowerThenOlder(active[j], active[k])
          /\ \A a \in SeqSet(active) : \A r \in BeamEvicted : ShallowerThenOlder(a, r)

\* Reached: the beam keeps a newer depth-1 scenario ahead of an older depth-2
\* one and has turned away a scenario of depth 3.
C31_Witness ==
    /\ \E j, k \in DOMAIN active :
          /\ j < k
          /\ active[j].depth = 1 /\ active[k].depth = 2
          /\ active[j].id > active[k].id
    /\ \E r \in BeamEvicted : r.depth = 3

\* The parameters under which the beam freezes.
FreezeParameters(c) ==
    /\ ProbLt(Prob(0, 1), c.branch_prob) /\ ProbLt(c.branch_prob, Prob(1, 1))
    /\ ~ProbLt(c.branch_prob, c.min_prob)
    /\ c.max_depth >= 2
    /\ c.beam_width >= 1

\* From the beam_width-th call on, the active set is beam_width root children.
C32_Frozen ==
    (FreezeParameters(cfg) /\ calls >= cfg.beam_width) =>
        /\ Len(active) = cfg.beam_width
        /\ \A j \in DOMAIN active : active[j].depth = 1 /\ active[j].parent = None

\* A call after the beam_width-th leaves the active set as it was and retires
\* what it creates.
C32_Step ==
    (FreezeParameters(cfg) /\ calls >= cfg.beam_width /\ calls' = calls + 1) =>
        /\ active' = active
        /\ SeqSet(outcome'.created) \subseteq SeqSet(outcome'.retired)

\* C32: with 0 < branch_prob < 1, min_prob <= branch_prob, max_depth >= 2 and
\* beam_width >= 1, from the beam_width-th expand call on the active set is
\* the same beam_width root children for good, and every scenario a later
\* call creates is retired by that call.
C32_BeamFreeze == []C32_Frozen /\ [][C32_Step]_vars

\* Reached: a call after the beam_width-th created scenarios and retired them
\* all, the active set being the root children of the first calls.
C32_Witness ==
    /\ FreezeParameters(cfg)
    /\ calls > cfg.beam_width
    /\ Len(outcome.created) >= 2
    /\ SeqSet(outcome.created) \subseteq SeqSet(outcome.retired)
    /\ Len(active) = cfg.beam_width
    /\ \A j \in DOMAIN active : active[j].id \in SeqSet(SubSeq(hist.allocated, 1, 2))

\* The bookkeeping of one expand call: what it creates is new, what it
\* retires was active or created and is listed once, and the new active set
\* is the old one and the created ones without the retired ones.
C33_Step ==
    calls' = calls + 1 =>
        LET old     == SeqSet(active)
            created == SeqSet(outcome'.created)
            retired == SeqSet(outcome'.retired)
        IN  /\ {m.id : m \in created} \cap {m.id : m \in old} = {}
            /\ retired \subseteq (old \cup created)
            /\ \A j, k \in DOMAIN outcome'.retired :
                  outcome'.retired[j].id = outcome'.retired[k].id => j = k
            /\ SeqSet(active') = (old \cup created) \ retired
            /\ Len(active') = Cardinality((old \cup created) \ retired)

\* The counters of the metrics registry agree with the active set.
C33_Counters ==
    /\ metrics.scenario_created - metrics.scenario_retired = Len(active)
    /\ metrics.scenario_active_peak <= cfg.beam_width

\* C33: every expand call conserves scenarios (created is disjoint from the
\* old active set, retired is a duplicate-free part of old active and
\* created, new active is the rest), so scenario_created - scenario_retired
\* is the size of the active set, and scenario_active_peak never exceeds
\* beam_width.
C33_Conservation == []C33_Counters /\ [][C33_Step]_vars

\* Reached: several calls have created and retired scenarios, some retired
\* after having been active, and the peak is the full beam.
C33_Witness ==
    /\ calls >= 2
    /\ metrics.scenario_created >= 4
    /\ metrics.scenario_retired >= 2
    /\ metrics.scenario_active_peak = cfg.beam_width
    /\ active # <<>>
    /\ \E j \in DOMAIN outcome.retired : outcome.retired[j] \notin SeqSet(outcome.created)
    /\ \E j \in DOMAIN outcome.retired : outcome.retired[j] \in SeqSet(outcome.created)

\* The collection holding each record of the set once.
OnceEach(S) == [r \in S |-> 1]

\* The overlay map and the active set as the scenario inputs would show them.
RegistryOverlays ==
    {<<overlays[s].scenario_id, OverlayKey(overlays[s]), OverlayDelta(overlays[s])>> :
        s \in DOMAIN overlays}

RegistryWeights == {<<active[j].id, active[j].weight>> : j \in DOMAIN active}

\* Every multiplicity of the collection is 1.
ZeroOrOne(coll) == \A r \in DOMAIN coll : coll[r] = 1

C34_Mirror ==
    /\ pred_input = OnceEach(RegistryOverlays)
    /\ scen_weight_input = OnceEach(RegistryWeights)
    /\ Cardinality(RegistryWeights) = Len(active)

\* The inputs between the insertions and the retractions of one iteration.
C34_Step ==
    calls' = calls + 1 =>
        /\ ZeroOrOne(PushAll(scen_weight_input, WeightRecs(outcome'.created), 1, 1))
        /\ ZeroOrOne(PushAll(pred_input, OverlayRecs(outcome'.overlays_added), 1, 1))

\* C34: the accumulated overlay input is the manager's overlay map and the
\* accumulated scenario-weight input is the (id, weight) pairs of the active
\* set, every record at multiplicity 1, after every iteration of the batch
\* and so at the end of every epoch; no record is ever held at a negative
\* multiplicity or at one above 1.
C34_InputsMirrorRegistry == []C34_Mirror /\ [][C34_Step]_vars

\* Reached: an epoch has closed after a call that inserted records for the
\* scenarios it created and retracted those of a scenario active before.
C34_Witness ==
    /\ EpochClosed
    /\ Len(active) >= 2
    /\ DOMAIN pred_input # {}
    /\ outcome.created # <<>>
    /\ \E j \in DOMAIN outcome.overlays_removed :
          outcome.overlays_removed[j].scenario_id
              \notin {outcome.created[k].id : k \in DOMAIN outcome.created}

\* An output as it stood at the previous epoch's end.
Before(coll, diff) == Plus(coll, Negate(diff))

\* Every record that an output held for a scenario no longer active has been
\* retracted by the epoch's diffs.
Retracted(coll, diff) ==
    \A r \in DOMAIN Before(coll, diff) :
        r[1] \notin ActiveIds => Count(diff, r) = -Before(coll, diff)[r]

\* C35: at the end of every epoch the scenario top-K and the alerts hold
\* entries of active scenarios only; what they held for a scenario retired
\* during the epoch has been retracted when the wait loop exits.
C35_OutputsOfActiveOnly ==
    EpochClosed =>
        /\ SidsOf(scenario_topk) \cup SidsOf(alerts) \subseteq ActiveIds
        /\ Retracted(scenario_topk, scenario_topk_diff)
        /\ Retracted(alerts, alerts_diff)

\* Reached: an epoch closed in which a scenario with a top-K entry and an
\* alert was retired; both are retracted, and the active scenario has its own.
C35_Witness ==
    /\ EpochClosed
    /\ scenario_topk # EmptyColl
    /\ \E r \in DOMAIN scenario_topk_diff :
          /\ scenario_topk_diff[r] < 0
          /\ r[1] \in hist.retired
          /\ r[1] \notin ActiveIds
    /\ \E r \in DOMAIN alerts_diff :
          /\ alerts_diff[r] < 0
          /\ r[1] \in hist.retired
          /\ r[1] \notin ActiveIds

\* C36: at the end of every epoch a scenario's top-K holds a grouping key at
\* most once, and the alerts hold at most one tuple per scenario and key,
\* also when the scenario's overlay key is in the base top-K and K >= 2.
C36_KeyOncePerScenario ==
    EpochClosed =>
        /\ \A r, q \in DOMAIN scenario_topk :
              (r[1] = q[1] /\ r[2][2] = q[2][2]) => r = q
        /\ \A r, q \in DOMAIN alerts :
              (r[1] = q[1] /\ r[2] = q[2]) => r = q

====
